---- MODULE Spec2Model ----
(***************************************************************************)
(* The cloud synchronisation engine of the workout tracker                 *)
(* (utils/sync.ts): the tombstone flush, the per-entity upload and         *)
(* download phases, the name-resolution layer and fullCloudSync, together  *)
(* with the page handlers that mutate the local store.                     *)
(*                                                                         *)
(* db[d] is the Dexie store of device d, cloud is the Supabase database.   *)
(* Every phase of fullCloudSync is one action; the outcome of each remote  *)
(* call (success or error) and the unspecified row order of a select are   *)
(* inputs of the action.                                                   *)
(***************************************************************************)
EXTENDS Integers, Sequences, FiniteSets, TLC

VARIABLES
    db,      \* db[d]: the local store of device d
    cloud,   \* the remote tables
    now,     \* the clock read by new Date()
    pc,      \* pc[d]: the phase of fullCloudSync device d is about to run
    run,     \* run[d]: whether every remote call of d's current run succeeded
    held,    \* held[d]: the result of a select device d has read and not yet acted on
    last,    \* the last step taken: its device, phase, inputs and result
    done,    \* the runs completed since the last local mutation
    ops,     \* number of local mutations so far
    faults,  \* number of failed remote calls so far
    syncs    \* number of fullCloudSync runs started so far

vars == <<db, cloud, now, pc, run, held, last, done, ops, faults, syncs>>

----------------------------------------------------------------------------
(* Bounds of the model *)

\* Spec: local mutations and runs, every remote call succeeding
MaxOps == 1
MaxSyncs == 4

\* SpecFlush: deletions on one device, remote calls of the flush may fail
FlushOps == 2
FlushSyncs == 2
FlushFaults == 1

\* SpecUpload: two devices, remote calls of the template upload may fail
UploadOps == 1
UploadSyncs == 3
UploadFaults == 2

\* SpecConv: one device, its exercise collection and the lists converted
ConvOps == 1
ConvSyncs == 1
MaxLen == 2

\* SpecExercises: two devices, each adding exercises, every remote call succeeding
ExerciseOps == 2
ExerciseSyncs == 2

\* SpecFaults: one device, any remote call of any phase may fail
FaultOps == 1
FaultSyncs == 2
FaultBudget == 2
\* SpecHistory: one device with a backlog of finished workouts
HistoryBacklog == 4
HistoryOps == 7
HistorySyncs == 1

\* SpecDedup: the stores deduplicateExercises is applied to
DedupExercises == 4
DedupSets == 2
DedupOps == 1
DedupNames == {"Row", "row", "Row ", "Squat"}

\* SpecNorm: the lists of names normalizeMuscleGroups is applied to
MaxNames == 2
MaxPlain == 1

\* SpecSettings: two devices whose runs overlap
SettingsOps == 1
SettingsSyncs == 3

\* SpecShared
SharedSyncs == 3

\* SpecOverlap
OverlapSyncs == 2

\* SpecAuth
AuthSyncs == 3

\* SpecCrash
CrashSyncs == 2
CrashBacklog == 6

\* SpecRename
RenameOps == 1
RenameSyncs == 2

\* SpecSets
SetsOps == 5
SetsSyncs == 1

\* SpecNames
NamesSyncs == 2

\* SpecForeign
ForeignSyncs == 2

\* SpecFromCloud
CloudOps == 2

\* SpecCleanup
CleanupRecords == 3
CleanupSyncs == 1

\* SpecDefaults
DefaultsSyncs == 2

\* SpecEdits
EditOps == 1
EditSyncs == 2
EditFaults == 1

----------------------------------------------------------------------------
(* Values *)

Devices == {"A", "B"}

\* supabase.auth.getUser(): both devices are signed in as the same user
CurrentUser == "u1"

NoName == "<none>"
NoTime == 0
NoDate == "<none>"

\* localStorage.getItem('restTimerDefault') === null (the values stored are
\* positive numbers of seconds)
NoSetting == 0

\* localStorage.getItem('restTimerEnabled') === null (the values stored are
\* 'true' and 'false')
Unset == "null"

\* String.prototype.toLowerCase on the strings of the model
toLowerCase(s) ==
    CASE s = "Push" -> "push"
      [] s = "Legs" -> "legs"
      [] s = "Bench Press" -> "bench press"
      [] s = "Squat" -> "squat"
      [] s = "Row" -> "row"
      [] s = "Row " -> "row "
      [] s = "Curl" -> "curl"
      [] s = "Unknown Exercise" -> "unknown exercise"
      [] OTHER -> s

\* String.prototype.trim on the strings of the model
trim(s) ==
    CASE s = "Row " -> "Row"
      [] s = "row " -> "row"
      [] OTHER -> s

\* The elements of a finite set of numbers in ascending order (Table.toArray()
\* returns the records by primary key)
RECURSIVE SortedSeq(_)
SortedSeq(S) ==
    IF S = {} THEN <<>>
    ELSE LET m == CHOOSE x \in S : \A y \in S : x <= y
         IN <<m>> \o SortedSeq(S \ {m})

Range(f) == {f[i] : i \in DOMAIN f}

\* All enumerations of a finite set: the orders in which a select without a
\* total order may return its rows
Perms(S) ==
    {f \in [1..Cardinality(S) -> S] : \A i, j \in DOMAIN f : f[i] = f[j] => i = j}

\* Position of x in the enumeration h (0 when absent)
Pos(h, x) == IF \E i \in DOMAIN h : h[i] = x
             THEN CHOOSE i \in DOMAIN h : h[i] = x ELSE 0

\* The record of table T with primary key id
Rec(T, id) == CHOOSE r \in T : r.id = id

Ids(T) == {r.id : r \in T}

\* .select(...).eq(...).single(): the row if exactly one row matches, else an
\* error and no data
single(rows) == IF Cardinality(rows) = 1 THEN rows ELSE {}

----------------------------------------------------------------------------
(* Name-resolution layer *)

\* new Map(localExercises.map(e => [String(e.id), e.name])).get(id)
idToName(exercises, id) ==
    IF id \in Ids(exercises) THEN Rec(exercises, id).name ELSE NoName

\* The map as it would be if the first entry with a key were kept
nameToIdFirst(exercises, key) ==
    LET S == {e.id : e \in {x \in exercises : toLowerCase(x.name) = key}}
    IN IF S = {} THEN 0 ELSE CHOOSE m \in S : \A y \in S : m <= y

\* new Map(localExercises.map(e => [e.name.toLowerCase(), String(e.id)])).get(key):
\* a later entry of the array replaces an earlier one with the same key, so the
\* exercise with the highest id wins
nameToId(exercises, key) ==
    LET S == {e.id : e \in {x \in exercises : toLowerCase(x.name) = key}}
    IN IF S = {} THEN 0 ELSE CHOOSE m \in S : \A y \in S : y <= m

\* exerciseName: idToName.get(ex.exerciseId) || 'Unknown Exercise'
\* (an absent exercise and an empty name both give 'Unknown Exercise')
convertEntryToNamesForCloud(exercises, ex) ==
    LET n == idToName(exercises, ex.exerciseId)
    IN [ex EXCEPT !.exerciseName = IF n = NoName \/ n = "" THEN "Unknown Exercise" ELSE n]

\* The list as it would be uploaded without the conversion
listWithLocalIds(exercises, list) == list

convertExercisesToNamesForCloud(exercises, list) ==
    [i \in DOMAIN list |-> convertEntryToNamesForCloud(exercises, list[i])]

\* The conversion with a fallback that does not keep the entry's id
convertEntryWithoutFallback(exercises, ex) ==
    [ex EXCEPT !.exerciseId = nameToId(exercises, toLowerCase(ex.exerciseName))]

\* if (ex.exerciseName) { localId = nameToId.get(lower); if (localId) return {...ex, exerciseId: localId} } return ex
convertEntryFromCloud(exercises, ex) ==
    IF ex.exerciseName # NoName /\ ex.exerciseName # ""
       /\ nameToId(exercises, toLowerCase(ex.exerciseName)) # 0
    THEN [ex EXCEPT !.exerciseId = nameToId(exercises, toLowerCase(ex.exerciseName))]
    ELSE ex

convertExercisesFromCloud(exercises, list) ==
    [i \in DOMAIN list |-> convertEntryFromCloud(exercises, list[i])]

----------------------------------------------------------------------------
(* Remote select order *)

\* Rank of a remote row in the order a select returns rows: h enumerates the
\* rows present when the phase starts, rows inserted during the phase follow
Rank(h, id) == IF Pos(h, id) # 0 THEN Pos(h, id) ELSE Len(h) + id

\* existing[0] of a select without order
FirstRow(rows, h) ==
    CHOOSE r \in rows : \A q \in rows : Rank(h, r.id) <= Rank(h, q.id)

\* The rows of a select as an array: ascending by key[r], ties in heap order
RECURSIVE OrderRows(_, _, _)
OrderRows(rows, key, h) ==
    IF rows = {} THEN <<>>
    ELSE LET r == CHOOSE x \in rows : \A y \in rows :
                      \/ key[x] < key[y]
                      \/ key[x] = key[y] /\ Rank(h, x.id) <= Rank(h, y.id)
         IN <<r>> \o OrderRows(rows \ {r}, key, h)

----------------------------------------------------------------------------
(* Templates: upload *)

\* One iteration of the loop of syncTemplatesToSupabase for the local template t.
\* S = [L: local store, R: cloud, synced, failed]. oc is the outcome of the
\* remote calls of this iteration:
\*   "ok"        every call returns without error
\*   "selectErr" the lookup by name returns an error: data is null, the error
\*               is not read, and the code takes the insert branch
\*   "writeErr"  the update or insert returns an error (or a call throws):
\*               caught, counted failed
\*   "dedupErr"  the delete of the duplicate rows returns an error, which the
\*               code does not read
\* The rows of existing.slice(1) as they would stay with the delete left out
duplicatesNeverDeleted(existing, first, oc) == existing \ {first}

\* The rows of existing.slice(1) that are still there after
\* supabase.from(...).delete().in('id', duplicateIds), whose error is not read
survivingDuplicates(existing, first, oc) ==
    IF oc = "dedupErr" THEN existing \ {first} ELSE {}

uploadTemplate(t, S, t_now, h, oc) ==
    LET existing == IF oc = "selectErr" THEN {}
                    ELSE {r \in S.R.templates :
                             r.user_id = CurrentUser /\ r.name = t.name}
        exercisesWithNames == convertExercisesToNamesForCloud(S.L.exercises, t.exercises)
        markSynced == {IF x.id = t.id THEN [x EXCEPT !.synced = TRUE] ELSE x :
                          x \in S.L.templates}
    IN IF oc = "writeErr"
       THEN [S EXCEPT !.failed = @ + 1]
       ELSE IF existing # {}
       THEN LET first == FirstRow(existing, h)
                updated == [first EXCEPT !.local_id = t.id,
                                         !.exercises = exercisesWithNames,
                                         !.updated_at = t_now]
                duplicates == survivingDuplicates(existing, first, oc)
                kept == (S.R.templates \ existing) \cup {updated} \cup duplicates
            IN [S EXCEPT !.R.templates = kept,
                         !.L.templates = markSynced,
                         !.synced = @ + 1]
       ELSE LET row == [id |-> S.R.next, local_id |-> t.id, user_id |-> CurrentUser,
                        name |-> t.name, exercises |-> exercisesWithNames,
                        created_at |-> t_now, updated_at |-> t_now]
            IN [S EXCEPT !.R.templates = @ \cup {row},
                         !.R.next = @ + 1,
                         !.L.templates = markSynced,
                         !.synced = @ + 1]

RECURSIVE syncTemplatesLoop(_, _, _, _, _, _)
syncTemplatesLoop(ids, snapshot, S, t_now, h, oc) ==
    IF ids = <<>> THEN S
    ELSE syncTemplatesLoop(Tail(ids), snapshot,
                           uploadTemplate(Rec(snapshot, Head(ids)), S, t_now, h, oc[Head(ids)]),
                           t_now, h, oc)

\* syncTemplatesToSupabase: every local template, in id order, from the array
\* read when the phase starts
syncTemplatesToSupabase(L, R, t_now, h, oc) ==
    syncTemplatesLoop(SortedSeq(Ids(L.templates)), L.templates,
                      [L |-> L, R |-> R, synced |-> 0, failed |-> 0], t_now, h, oc)

----------------------------------------------------------------------------
(* Templates: download *)

\* new Map(localTemplates.map(t => [t.name.toLowerCase(), t])).get(key): the
\* template with the highest id among those with the key, or none
HasLocalByName(templates, key) == \E t \in templates : toLowerCase(t.name) = key

localByName(templates, key) ==
    LET S == {t \in templates : toLowerCase(t.name) = key}
    IN CHOOSE t \in S : \A q \in S : q.id <= t.id

\* cloudUpdated = new Date(updated_at || created_at)
cloudUpdated(row) == IF row.updated_at # NoTime THEN row.updated_at ELSE row.created_at

\* localUpdated = lastUsed || createdAt
localUpdated(t) == IF t.lastUsed # NoTime THEN t.lastUsed ELSE t.createdAt

\* if (cloudUpdated > localUpdated)
cloudIsNewer(row, t) == cloudUpdated(row) > localUpdated(t)

\* One iteration of the download loop for the fetched row; snapshot is the
\* array of local templates read before the loop
downloadTemplate(row, snapshot, L) ==
    LET key == toLowerCase(row.name)
        mappedExercises == convertExercisesFromCloud(L.exercises, row.exercises)
    IN IF ~HasLocalByName(snapshot, key)
       THEN [L EXCEPT !.templates = @ \cup
                         {[id |-> L.next.templates, name |-> row.name,
                           exercises |-> mappedExercises,
                           createdAt |-> row.created_at,
                           lastUsed |-> row.updated_at, synced |-> FALSE]},
                      !.next.templates = @ + 1]
       ELSE LET localTemplate == localByName(snapshot, key)
            IN IF cloudIsNewer(row, localTemplate)
               THEN [L EXCEPT !.templates =
                        {IF x.id = localTemplate.id
                         THEN [x EXCEPT !.exercises = mappedExercises,
                                        !.lastUsed = cloudUpdated(row)]
                         ELSE x : x \in @}]
               ELSE L

RECURSIVE downloadTemplatesLoop(_, _, _)
downloadTemplatesLoop(data, snapshot, L) ==
    IF data = <<>> THEN L
    ELSE downloadTemplatesLoop(Tail(data), snapshot, downloadTemplate(Head(data), snapshot, L))

\* Remote deletion check: a local template of the snapshot marked synced whose
\* id is not the local_id of a fetched row is deleted
templateRemoteDeletions(data, snapshot) ==
    {t.id : t \in {x \in snapshot : x.synced /\ x.id \notin {r.local_id : r \in Range(data)}}}

\* .order('updated_at', { ascending: false })
negUpdatedAt(r) == 0 - r.updated_at

\* The rows the select of fetchTemplatesFromSupabase matches
fetchedTemplates(R) == {r \in R.templates : r.user_id = CurrentUser}

\* fetchTemplatesFromSupabase. oc = "selectErr": the select returns an error;
\* oc = "throws": the loop body throws after k rows (the add or update of the
\* local store, or the conversion of a row without an exercises array)
templatesData(R, h) ==
    OrderRows(fetchedTemplates(R), [r \in fetchedTemplates(R) |-> negUpdatedAt(r)], h)

\* The loop body calls the local store for this row (db.exercises.toArray of
\* the conversion, then db.templates.add or update)
templateRowIsWritten(row, snapshot) ==
    IF ~HasLocalByName(snapshot, toLowerCase(row.name)) THEN TRUE
    ELSE cloudIsNewer(row, localByName(snapshot, toLowerCase(row.name)))

fetchTemplatesFromSupabase(L, R, h, oc, k) ==
    LET data == templatesData(R, h)
    IN IF oc = "selectErr" \/ data = <<>> THEN L
       ELSE IF oc = "throws" THEN downloadTemplatesLoop(SubSeq(data, 1, k), L.templates, L)
       ELSE LET merged == downloadTemplatesLoop(data, L.templates, L)
                gone == templateRemoteDeletions(data, L.templates)
            IN [merged EXCEPT !.templates = {t \in @ : t.id \notin gone}]

----------------------------------------------------------------------------
(* Scheduled workouts: upload *)

\* One iteration of the loop of syncScheduledWorkoutsToSupabase; outcomes as
\* for uploadTemplate
uploadScheduled(w, S, h, oc) ==
    LET existing == IF oc = "selectErr" THEN {}
                    ELSE {r \in S.R.scheduled_workouts :
                             /\ r.user_id = CurrentUser
                             /\ r.date = w.date
                             /\ r.template_name = w.templateName}
        exercisesWithNames == convertExercisesToNamesForCloud(S.L.exercises, w.exercises)
        markSynced == {IF x.id = w.id THEN [x EXCEPT !.synced = TRUE] ELSE x :
                          x \in S.L.scheduledWorkouts}
    IN IF oc = "writeErr"
       THEN [S EXCEPT !.failed = @ + 1]
       ELSE IF existing # {}
       THEN LET first == FirstRow(existing, h)
                updated == [first EXCEPT !.local_id = w.id,
                                         !.notes = w.notes,
                                         !.exercises = exercisesWithNames,
                                         !.completed = w.completed]
                duplicates == survivingDuplicates(existing, first, oc)
                kept == (S.R.scheduled_workouts \ existing) \cup {updated} \cup duplicates
            IN [S EXCEPT !.R.scheduled_workouts = kept,
                         !.L.scheduledWorkouts = markSynced,
                         !.synced = @ + 1]
       ELSE LET row == [id |-> S.R.next, local_id |-> w.id, user_id |-> CurrentUser,
                        template_name |-> w.templateName, date |-> w.date,
                        notes |-> w.notes, exercises |-> exercisesWithNames,
                        completed |-> w.completed]
            IN [S EXCEPT !.R.scheduled_workouts = @ \cup {row},
                         !.R.next = @ + 1,
                         !.L.scheduledWorkouts = markSynced,
                         !.synced = @ + 1]

RECURSIVE syncScheduledLoop(_, _, _, _, _)
syncScheduledLoop(ids, snapshot, S, h, oc) ==
    IF ids = <<>> THEN S
    ELSE syncScheduledLoop(Tail(ids), snapshot,
                           uploadScheduled(Rec(snapshot, Head(ids)), S, h, oc[Head(ids)]),
                           h, oc)

syncScheduledWorkoutsToSupabase(L, R, h, oc) ==
    syncScheduledLoop(SortedSeq(Ids(L.scheduledWorkouts)), L.scheduledWorkouts,
                      [L |-> L, R |-> R, synced |-> 0, failed |-> 0], h, oc)

----------------------------------------------------------------------------
(* Scheduled workouts: download *)

\* The key `${date}-${templateName.toLowerCase()}`
dateNameKey(date, name) == <<date, toLowerCase(name)>>

HasLocalByDateName(scheduled, key) ==
    \E w \in scheduled : dateNameKey(w.date, w.templateName) = key

localByDateName(scheduled, key) ==
    LET S == {w \in scheduled : dateNameKey(w.date, w.templateName) = key}
    IN CHOOSE w \in S : \A q \in S : q.id <= w.id

\* JSON.stringify(cloudWorkout.exercises) !== JSON.stringify(localWorkout.exercises):
\* the two lists differ in some entry or field, exerciseName included
exercisesDiffer(row, w) == row.exercises # w.exercises

downloadScheduled(row, snapshot, L) ==
    LET key == dateNameKey(row.date, row.template_name)
        mappedExercises == convertExercisesFromCloud(L.exercises, row.exercises)
    IN IF ~HasLocalByDateName(snapshot, key)
       THEN [L EXCEPT !.scheduledWorkouts = @ \cup
                         {[id |-> L.next.scheduledWorkouts, templateId |-> 0,
                           templateName |-> row.template_name, date |-> row.date,
                           notes |-> row.notes, exercises |-> mappedExercises,
                           completed |-> row.completed, synced |-> FALSE]},
                      !.next.scheduledWorkouts = @ + 1]
       ELSE LET localWorkout == localByDateName(snapshot, key)
            IN IF exercisesDiffer(row, localWorkout)
               THEN [L EXCEPT !.scheduledWorkouts =
                        {IF x.id = localWorkout.id
                         THEN [x EXCEPT !.exercises = mappedExercises,
                                        !.notes = row.notes,
                                        !.completed = row.completed]
                         ELSE x : x \in @}]
               ELSE L

RECURSIVE downloadScheduledLoop(_, _, _)
downloadScheduledLoop(data, snapshot, L) ==
    IF data = <<>> THEN L
    ELSE downloadScheduledLoop(Tail(data), snapshot, downloadScheduled(Head(data), snapshot, L))

scheduledRemoteDeletions(data, snapshot) ==
    {w.id : w \in {x \in snapshot : x.synced /\ x.id \notin {r.local_id : r \in Range(data)}}}

\* .order('date', { ascending: true }); dates are numbered days
dateOf(r) == r.date

fetchedScheduledWorkouts(R) == {r \in R.scheduled_workouts : r.user_id = CurrentUser}

\* fetchScheduledWorkoutsFromSupabase; an empty result is not an early return
\* here. oc and k as for fetchTemplatesFromSupabase
scheduledData(R, h) ==
    OrderRows(fetchedScheduledWorkouts(R),
              [r \in fetchedScheduledWorkouts(R) |-> dateOf(r)], h)

scheduledRowIsWritten(row, snapshot) ==
    IF ~HasLocalByDateName(snapshot, dateNameKey(row.date, row.template_name)) THEN TRUE
    ELSE exercisesDiffer(row, localByDateName(snapshot,
                                              dateNameKey(row.date, row.template_name)))

fetchScheduledWorkoutsFromSupabase(L, R, h, oc, k) ==
    LET data == scheduledData(R, h)
    IN IF oc = "selectErr" THEN L
       ELSE IF oc = "throws"
       THEN downloadScheduledLoop(SubSeq(data, 1, k), L.scheduledWorkouts, L)
       ELSE LET merged == downloadScheduledLoop(data, L.scheduledWorkouts, L)
                gone == scheduledRemoteDeletions(data, L.scheduledWorkouts)
            IN [merged EXCEPT !.scheduledWorkouts = {w \in @ : w.id \notin gone}]

----------------------------------------------------------------------------
(* Exercises: upload and download *)

\* One upsert of syncExercises, onConflict: 'local_id'. The exercises table has
\* no user column: the conflict target is local_id alone.
uploadExercise(e, S, oc) ==
    IF oc # "ok" THEN [S EXCEPT !.failed = @ + 1]
    ELSE IF \E r \in S.R.exercises : r.local_id = e.id
    THEN [S EXCEPT !.R.exercises =
                      {IF r.local_id = e.id
                       THEN [r EXCEPT !.name = e.name,
                                      !.muscle_group = e.muscleGroups,
                                      !.equipment = e.equipment]
                       ELSE r : r \in @},
                   !.synced = @ + 1]
    ELSE [S EXCEPT !.R.exercises = @ \cup
                      {[id |-> S.R.next, local_id |-> e.id, name |-> e.name,
                        muscle_group |-> e.muscleGroups, equipment |-> e.equipment,
                        deleted |-> FALSE]},
                   !.R.next = @ + 1,
                   !.synced = @ + 1]

RECURSIVE syncExercisesLoop(_, _, _, _)
syncExercisesLoop(ids, snapshot, S, oc) ==
    IF ids = <<>> THEN S
    ELSE syncExercisesLoop(Tail(ids), snapshot,
                           uploadExercise(Rec(snapshot, Head(ids)), S, oc[Head(ids)]), oc)

syncExercises(L, R, oc) ==
    syncExercisesLoop(SortedSeq(Ids(L.exercises)), L.exercises,
                      [L |-> L, R |-> R, synced |-> 0, failed |-> 0], oc)

HasExerciseByName(exercises, key) == \E e \in exercises : toLowerCase(e.name) = key

exerciseByName(exercises, key) ==
    LET S == {e \in exercises : toLowerCase(e.name) = key}
    IN CHOOSE e \in S : \A q \in S : q.id <= e.id

\* The loop body without the lookup in localByName: every fetched row is added
downloadExerciseUnmatched(row, snapshot, L) ==
    [L EXCEPT !.exercises = @ \cup
                 {[id |-> L.next.exercises, name |-> row.name,
                   muscleGroups |-> row.muscle_group,
                   equipment |-> row.equipment]},
              !.next.exercises = @ + 1]

\* One iteration of the loop of fetchExercisesFromSupabase
downloadExercise(row, snapshot, L) ==
    LET key == toLowerCase(row.name)
    IN IF ~HasExerciseByName(snapshot, key)
       THEN [L EXCEPT !.exercises = @ \cup
                         {[id |-> L.next.exercises, name |-> row.name,
                           muscleGroups |-> row.muscle_group,
                           equipment |-> row.equipment]},
                      !.next.exercises = @ + 1]
       ELSE LET localExercise == exerciseByName(snapshot, key)
            IN IF localExercise.muscleGroups # row.muscle_group
                  \/ localExercise.equipment # row.equipment
               THEN [L EXCEPT !.exercises =
                        {IF x.id = localExercise.id
                         THEN [x EXCEPT !.muscleGroups = row.muscle_group,
                                        !.equipment = row.equipment]
                         ELSE x : x \in @}]
               ELSE L

RECURSIVE downloadExercisesLoop(_, _, _)
downloadExercisesLoop(data, snapshot, L) ==
    IF data = <<>> THEN L
    ELSE downloadExercisesLoop(Tail(data), snapshot, downloadExercise(Head(data), snapshot, L))

\* .order('name'): the rank of a name in the collation of the model's names
nameRank(r) ==
    CASE toLowerCase(r.name) = "bench press" -> 1
      [] toLowerCase(r.name) = "curl" -> 2
      [] toLowerCase(r.name) = "row" -> 3
      [] toLowerCase(r.name) = "squat" -> 4
      [] OTHER -> 5

fetchedExercises(R) == {r \in R.exercises : ~r.deleted}

\* fetchExercisesFromSupabase: the rows not soft-deleted, by name. oc and k as
\* for fetchTemplatesFromSupabase
exercisesData(R, h) ==
    OrderRows(fetchedExercises(R), [r \in fetchedExercises(R) |-> nameRank(r)], h)

\* The loop body calls db.exercises.add or update for this row
exerciseRowIsWritten(row, snapshot) ==
    IF ~HasExerciseByName(snapshot, toLowerCase(row.name)) THEN TRUE
    ELSE LET localExercise == exerciseByName(snapshot, toLowerCase(row.name))
         IN localExercise.muscleGroups # row.muscle_group
               \/ localExercise.equipment # row.equipment

fetchExercisesFromSupabase(L, R, h, oc, k) ==
    LET data == exercisesData(R, h)
    IN IF oc = "selectErr" \/ data = <<>> THEN L
       ELSE IF oc = "throws" THEN downloadExercisesLoop(SubSeq(data, 1, k), L.exercises, L)
       ELSE downloadExercisesLoop(data, L.exercises, L)

----------------------------------------------------------------------------
(* Workout history: upload *)

\* cleanupOldWorkouts(5)
KeepCount == 5

\* db.workouts.where('status').equals('completed')
completedWorkouts(L) == {w \in L.workouts : w.status = "completed"}

\* The completed workouts by ascending endTime: the sort's order turned round
RECURSIVE oldestFirst(_)
oldestFirst(W) ==
    IF W = {} THEN <<>>
    ELSE LET w == CHOOSE x \in W : \A y \in W :
                      \/ x.endTime < y.endTime
                      \/ x.endTime = y.endTime /\ x.id <= y.id
         IN <<w>> \o oldestFirst(W \ {w})

\* .reverse().sortBy('endTime'): the completed workouts by descending endTime;
\* the sort is stable over the reversed index order, so of two workouts with
\* the same endTime the one with the higher id comes first
RECURSIVE latestFirst(_)
latestFirst(W) ==
    IF W = {} THEN <<>>
    ELSE LET w == CHOOSE x \in W : \A y \in W :
                      \/ x.endTime > y.endTime
                      \/ x.endTime = y.endTime /\ x.id >= y.id
         IN <<w>> \o latestFirst(W \ {w})

\* allWorkouts.slice(keepCount)
slice(seq, from) == SubSeq(seq, from + 1, Len(seq))

\* cleanupOldWorkouts: the completed workouts after the keepCount latest are
\* deleted, each with the sets whose workoutId is its id
cleanupOldWorkouts(L, keepCount) ==
    LET allWorkouts == latestFirst(completedWorkouts(L))
        workoutsToDelete == Range(slice(allWorkouts, keepCount))
    IN IF Len(allWorkouts) > keepCount
       THEN [L EXCEPT !.sets = {x \in @ : x.workoutId \notin Ids(workoutsToDelete)},
                      !.workouts = @ \ workoutsToDelete]
       ELSE L

\* supabase.from('workouts').upsert({...}, { onConflict: 'local_id' })
upsertWorkout(R, workout) ==
    IF \E r \in R.workouts : r.local_id = workout.id
    THEN [R EXCEPT !.workouts =
            {IF r.local_id = workout.id
             THEN [r EXCEPT !.name = workout.name,
                            !.start_time = workout.startTime,
                            !.end_time = workout.endTime]
             ELSE r : r \in @}]
    ELSE [R EXCEPT !.workouts = @ \cup
            {[id |-> R.next, local_id |-> workout.id, name |-> workout.name,
              start_time |-> workout.startTime, end_time |-> workout.endTime]},
                   !.next = @ + 1]

\* The delete of the workout's sets left out
keepWorkoutSets(R, workoutId) == R

\* supabase.from('workout_sets').delete().eq('workout_local_id', String(workout.id))
deleteWorkoutSets(R, workoutId) ==
    [R EXCEPT !.workout_sets = {r \in @ : r.workout_local_id # workoutId}]

\* getSupabaseExerciseId: the id of the exercises row with this local_id; when
\* there is none the local exercise is upserted and the new row's id returned;
\* found is FALSE when the local exercise does not exist either
getSupabaseExerciseId(L, R, localExerciseId) ==
    LET data == single({r \in R.exercises : r.local_id = localExerciseId})
    IN IF data # {}
       THEN [R |-> R, found |-> TRUE, id |-> (CHOOSE r \in data : TRUE).id]
       ELSE IF localExerciseId \notin Ids(L.exercises)
       THEN [R |-> R, found |-> FALSE, id |-> 0]
       ELSE LET localExercise == Rec(L.exercises, localExerciseId)
            IN [R |-> [R EXCEPT !.exercises = @ \cup
                          {[id |-> R.next, local_id |-> localExerciseId,
                            name |-> localExercise.name,
                            muscle_group |-> localExercise.muscleGroups,
                            equipment |-> localExercise.equipment,
                            deleted |-> FALSE]},
                                !.next = @ + 1],
                found |-> TRUE, id |-> R.next]

\* The loop over the workout's sets that builds setsToInsert; a set whose
\* exercise has no remote id is skipped
RECURSIVE buildSetsToInsert(_, _, _, _, _)
buildSetsToInsert(ids, L, R, workout, setsToInsert) ==
    IF ids = <<>> THEN [R |-> R, setsToInsert |-> setsToInsert]
    ELSE LET s == Rec(L.sets, Head(ids))
             e == getSupabaseExerciseId(L, R, s.exerciseId)
         IN IF ~e.found
            THEN buildSetsToInsert(Tail(ids), L, e.R, workout, setsToInsert)
            ELSE buildSetsToInsert(Tail(ids), L, e.R, workout,
                    Append(setsToInsert,
                           [workout_local_id |-> workout.id, exercise_id |-> e.id,
                            set_number |-> s.setNumber]))

\* supabase.from('workout_sets').insert(setsToInsert): each row gets its id
RECURSIVE insertWorkoutSets(_, _)
insertWorkoutSets(R, setsToInsert) ==
    IF setsToInsert = <<>> THEN R
    ELSE insertWorkoutSets(
            [R EXCEPT !.workout_sets = @ \cup
                        {[id |-> R.next,
                          workout_local_id |-> Head(setsToInsert).workout_local_id,
                          exercise_id |-> Head(setsToInsert).exercise_id,
                          set_number |-> Head(setsToInsert).set_number]},
                      !.next = @ + 1],
            Tail(setsToInsert))

\* syncToSupabase(workoutId). oc is the outcome of its remote calls:
\*   "ok"        every call returns without error
\*   "upsertErr" the upsert of the workouts row returns an error, or throws
\*   "deleteErr" the delete of the workout's sets returns an error (not read)
\*   "insertErr" the insert of the sets returns an error
syncToSupabase(L, R, workoutId, oc) ==
    IF workoutId \notin Ids(L.workouts) THEN [L |-> L, R |-> R, ok |-> FALSE]
    ELSE LET workout == Rec(L.workouts, workoutId)
             sets == {x \in L.sets : x.workoutId = workoutId}
         IN IF sets = {} \/ oc = "upsertErr" THEN [L |-> L, R |-> R, ok |-> FALSE]
            ELSE LET upserted == upsertWorkout(R, workout)
                     emptied == IF oc = "deleteErr" THEN upserted
                                ELSE deleteWorkoutSets(upserted, workoutId)
                     built == buildSetsToInsert(SortedSeq(Ids(sets)), L, emptied, workout, <<>>)
                 IN IF built.setsToInsert = <<>> \/ oc = "insertErr"
                    THEN [L |-> L, R |-> built.R, ok |-> FALSE]
                    ELSE [L |-> cleanupOldWorkouts(
                                    [L EXCEPT !.workouts =
                                        {IF w.id = workoutId
                                         THEN [w EXCEPT !.synced = TRUE] ELSE w : w \in @}],
                                    KeepCount),
                          R |-> insertWorkoutSets(built.R, built.setsToInsert),
                          ok |-> TRUE]

\* The loop of syncAllPendingWorkouts over workoutsToSync, read before the loop
RECURSIVE syncWorkoutsLoop(_, _, _, _)
syncWorkoutsLoop(ids, forceAll, S, oc) ==
    IF ids = <<>> THEN S
    ELSE LET id == Head(ids)
             unsynced == IF forceAll
                         THEN [S.L EXCEPT !.workouts =
                                 {IF w.id = id THEN [w EXCEPT !.synced = FALSE] ELSE w :
                                     w \in @}]
                         ELSE S.L
             T == syncToSupabase(unsynced, S.R, id, oc[id])
         IN syncWorkoutsLoop(Tail(ids), forceAll,
                [L |-> T.L, R |-> T.R,
                 synced |-> S.synced + (IF T.ok THEN 1 ELSE 0),
                 failed |-> S.failed + (IF T.ok THEN 0 ELSE 1),
                 uploaded |-> S.uploaded \cup (IF T.ok THEN {id} ELSE {})], oc)

\* db.workouts.where('status').equals('completed'), filtered unless forceAll
workoutsToSync(L, forceAll) ==
    {w \in completedWorkouts(L) : forceAll \/ ~w.synced}

\* syncAllPendingWorkouts(forceAll): syncExercises, then every workout to sync.
\* ocE and ocW are the outcomes of the remote calls per exercise and workout
syncAllPendingWorkouts(L, R, forceAll, ocE, ocW) ==
    LET E == syncExercises(L, R, ocE)
    IN syncWorkoutsLoop(SortedSeq(Ids(workoutsToSync(E.L, forceAll))), forceAll,
                        [L |-> E.L, R |-> E.R, synced |-> 0, failed |-> 0, uploaded |-> {}],
                        ocW)

----------------------------------------------------------------------------
(* Exercises: local deduplication *)

\* The tombstone db.deletedItems.add records
Tombstone(L, type, localId, name, date) ==
    [id |-> L.next.deletedItems, type |-> type, localId |-> localId,
     name |-> name, date |-> date]

\* ex.name.trim().toLowerCase()
normalizedName(name) == toLowerCase(trim(name))

\* group.sort((a, b) => a.id - b.id)[0]: the exercise of e's group that is kept
keptExercise(exercises, e) ==
    LET group == {x \in exercises : normalizedName(x.name) = normalizedName(e.name)}
    IN CHOOSE x \in group : \A y \in group : x.id <= y.id

\* The exercises removed, in the order the loops reach them: the groups in the
\* order of their first exercise, the exercises of a group by id
RECURSIVE removalOrder(_, _)
removalOrder(exercises, remove) ==
    IF remove = {} THEN <<>>
    ELSE LET duplicate ==
                CHOOSE x \in remove : \A y \in remove :
                    \/ keptExercise(exercises, x).id < keptExercise(exercises, y).id
                    \/ /\ keptExercise(exercises, x).id = keptExercise(exercises, y).id
                       /\ x.id <= y.id
         IN <<duplicate>> \o removalOrder(exercises, remove \ {duplicate})

\* removeDuplicate that leaves the sets of the duplicate as they are
removeDuplicateOnly(L, duplicate, keep) ==
    [L EXCEPT !.exercises = {x \in @ : x.id # duplicate.id},
              !.deletedItems = @ \cup
                  {Tombstone(L, "exercise", duplicate.id, duplicate.name, NoDate)},
              !.next.deletedItems = @ + 1]

\* One duplicate: its sets are pointed to the kept exercise, the duplicate is
\* deleted and a tombstone recorded
removeDuplicate(L, duplicate, keep) ==
    [L EXCEPT !.sets = {IF x.exerciseId = duplicate.id
                        THEN [x EXCEPT !.exerciseId = keep.id] ELSE x : x \in @},
              !.exercises = {x \in @ : x.id # duplicate.id},
              !.deletedItems = @ \cup
                  {Tombstone(L, "exercise", duplicate.id, duplicate.name, NoDate)},
              !.next.deletedItems = @ + 1]

RECURSIVE deduplicateLoop(_, _, _)
deduplicateLoop(remove, exercises, L) ==
    IF remove = <<>> THEN L
    ELSE deduplicateLoop(Tail(remove), exercises,
                         removeDuplicate(L, Head(remove), keptExercise(exercises, Head(remove))))

\* deduplicateExercises(db)
deduplicateExercises(L) ==
    LET exercises == L.exercises
        remove == {e \in exercises : keptExercise(exercises, e).id # e.id}
    IN deduplicateLoop(removalOrder(exercises, remove), exercises, L)

----------------------------------------------------------------------------
(* Muscle groups: normalizeMuscleGroups *)

\* A JavaScript string is the sequence of its characters; these are the
\* characters JSON gives a meaning to
Quote == "\""
Backslash == "\\"
Space == " "

\* JavaScript values: strings, arrays, null and undefined
Str(chars) == [t |-> "string", s |-> chars]
Arr(items) == [t |-> "array", items |-> items]
Null == [t |-> "null"]
Undefined == [t |-> "undefined"]

\* The string 'Other'
Other == Str(<<"O", "t", "h", "e", "r">>)

\* JSON.stringify of a string: quotes and backslashes are escaped
RECURSIVE escapeChars(_)
escapeChars(chars) ==
    IF chars = <<>> THEN <<>>
    ELSE (IF Head(chars) \in {Quote, Backslash}
          THEN <<Backslash, Head(chars)>> ELSE <<Head(chars)>>) \o escapeChars(Tail(chars))

stringifyString(chars) == <<Quote>> \o escapeChars(chars) \o <<Quote>>

\* JSON.stringify of an array of strings
RECURSIVE stringifyItems(_)
stringifyItems(names) ==
    IF names = <<>> THEN <<>>
    ELSE IF Len(names) = 1 THEN stringifyString(Head(names))
    ELSE stringifyString(Head(names)) \o <<",">> \o stringifyItems(Tail(names))

stringifyList(names) == <<"[">> \o stringifyItems(names) \o <<"]">>

\* JSON.parse, on the characters of the model: a value is a string or an array
\* of values, with white space between the tokens; the result of a parse is
\* the value and the position after it, or a failure (JSON.parse throws)
ParseFailed == [ok |-> FALSE, v |-> Undefined, next |-> 0]

RECURSIVE skipWhitespace(_, _)
skipWhitespace(chars, i) ==
    IF i <= Len(chars) /\ chars[i] = Space THEN skipWhitespace(chars, i + 1) ELSE i

\* The characters of a JSON string from position i, after its opening quote
RECURSIVE parseStringBody(_, _, _)
parseStringBody(chars, i, acc) ==
    IF i > Len(chars) THEN ParseFailed
    ELSE IF chars[i] = Quote THEN [ok |-> TRUE, v |-> Str(acc), next |-> i + 1]
    ELSE IF chars[i] = Backslash
    THEN IF i + 1 <= Len(chars) /\ chars[i + 1] \in {Quote, Backslash}
         THEN parseStringBody(chars, i + 2, Append(acc, chars[i + 1]))
         ELSE ParseFailed
    ELSE parseStringBody(chars, i + 1, Append(acc, chars[i]))

RECURSIVE parseValue(_, _)
RECURSIVE parseItems(_, _, _)
\* The items of an array from position i, where an item begins
parseItems(chars, i, acc) ==
    LET item == parseValue(chars, i)
        j == skipWhitespace(chars, item.next)
    IN IF ~item.ok \/ j > Len(chars) THEN ParseFailed
       ELSE IF chars[j] = ","
       THEN parseItems(chars, skipWhitespace(chars, j + 1), Append(acc, item.v))
       ELSE IF chars[j] = "]"
       THEN [ok |-> TRUE, v |-> Arr(Append(acc, item.v)), next |-> j + 1]
       ELSE ParseFailed

parseValue(chars, i) ==
    IF i > Len(chars) THEN ParseFailed
    ELSE IF chars[i] = Quote THEN parseStringBody(chars, i + 1, <<>>)
    ELSE IF chars[i] = "["
    THEN LET j == skipWhitespace(chars, i + 1)
         IN IF j <= Len(chars) /\ chars[j] = "]"
            THEN [ok |-> TRUE, v |-> Arr(<<>>), next |-> j + 1]
            ELSE parseItems(chars, j, <<>>)
    ELSE ParseFailed

JSONparse(chars) ==
    LET parsed == parseValue(chars, skipWhitespace(chars, 1))
    IN IF parsed.ok /\ skipWhitespace(chars, parsed.next) = Len(chars) + 1
       THEN parsed ELSE ParseFailed

\* String.prototype.trim on a sequence of characters
RECURSIVE trimChars(_)
trimChars(chars) ==
    IF chars = <<>> THEN <<>>
    ELSE IF Head(chars) = Space THEN trimChars(Tail(chars))
    ELSE IF chars[Len(chars)] = Space THEN trimChars(SubSeq(chars, 1, Len(chars) - 1))
    ELSE chars

\* trimmed.replace(/\\"/g, '"')
RECURSIVE unescapeQuotes(_)
unescapeQuotes(chars) ==
    IF chars = <<>> THEN <<>>
    ELSE IF Len(chars) >= 2 /\ chars[1] = Backslash /\ chars[2] = Quote
    THEN <<Quote>> \o unescapeQuotes(SubSeq(chars, 3, Len(chars)))
    ELSE <<Head(chars)>> \o unescapeQuotes(Tail(chars))

\* val.replace(/^"|"$/g, ''): a leading quote and a trailing quote are removed
stripQuotes(chars) ==
    LET rest == IF chars # <<>> /\ Head(chars) = Quote THEN Tail(chars) ELSE chars
    IN IF rest # <<>> /\ rest[Len(rest)] = Quote
       THEN SubSeq(rest, 1, Len(rest) - 1) ELSE rest

\* trimmed.startsWith('[') && trimmed.endsWith(']')
looksLikeArray(chars) == chars # <<>> /\ Head(chars) = "[" /\ chars[Len(chars)] = "]"

\* parseDeep, and val.flatMap(parseDeep)
RECURSIVE parseDeep(_)
RECURSIVE flatMapParseDeep(_)
flatMapParseDeep(items) ==
    IF items = <<>> THEN <<>>
    ELSE LET r == parseDeep(Head(items))
         IN (IF r.t = "array" THEN r.items ELSE <<r>>) \o flatMapParseDeep(Tail(items))

parseDeep(val) ==
    IF val.t = "string"
    THEN LET trimmed == trimChars(val.s)
         IN IF looksLikeArray(trimmed)
            THEN IF JSONparse(trimmed).ok THEN parseDeep(JSONparse(trimmed).v)
                 ELSE IF JSONparse(unescapeQuotes(trimmed)).ok
                 THEN parseDeep(JSONparse(unescapeQuotes(trimmed)).v)
                 ELSE val
            ELSE IF stripQuotes(val.s) # val.s THEN parseDeep(Str(stripQuotes(val.s)))
            ELSE val
    ELSE IF val.t = "array" THEN Arr(flatMapParseDeep(val.items))
    ELSE val

\* result.flat().filter(item => typeof item === 'string' && item.length > 0)
RECURSIVE flatStrings(_)
flatStrings(items) ==
    IF items = <<>> THEN <<>>
    ELSE LET level == IF Head(items).t = "array" THEN Head(items).items ELSE <<Head(items)>>
         IN SelectSeq(level, LAMBDA x : x.t = "string" /\ x.s # <<>>)
                \o flatStrings(Tail(items))

\* [...new Set(flat)]: the first occurrence of each item, in order
RECURSIVE withoutDuplicates(_)
withoutDuplicates(items) ==
    IF items = <<>> THEN <<>>
    ELSE LET front == withoutDuplicates(SubSeq(items, 1, Len(items) - 1))
             x == items[Len(items)]
         IN IF x \in Range(front) THEN front ELSE Append(front, x)

\* !muscleGroups
falsy(val) == val.t \in {"null", "undefined"} \/ (val.t = "string" /\ val.s = <<>>)

\* normalizeMuscleGroups: the array returned, as the sequence of its items
normalizeMuscleGroups(muscleGroups) ==
    IF falsy(muscleGroups) THEN <<Other>>
    ELSE LET result == parseDeep(muscleGroups)
         IN IF result.t = "array"
            THEN IF flatStrings(result.items) # <<>>
                 THEN withoutDuplicates(flatStrings(result.items))
                 ELSE <<Other>>
            ELSE IF result.t = "string" THEN <<result>>
            ELSE <<Other>>

----------------------------------------------------------------------------
(* Tombstone flush *)

\* The exercises row with this local_id is referenced by a workout_sets row:
\* the hard delete is refused with code 23503
referencedBySets(R, localId) ==
    \E r \in R.exercises : r.local_id = localId
         /\ \E s \in R.workout_sets : s.exercise_id = r.id

\* The remote call of one tombstone returned without error. oc is the outcome
\* of the remote calls for this tombstone:
\*   "ok"      every call returns without error (apart from a 23503 refusal)
\*   "err"     the delete returns another error, or throws
\*   "softErr" the soft delete that follows a 23503 refusal returns an error
deletionConfirmed(item, R, oc) ==
    CASE item.type = "exercise" ->
            IF referencedBySets(R, item.localId) THEN oc = "ok" ELSE oc # "err"
      [] OTHER -> oc # "err"

\* remoteDeletion with the soft delete left out: a referenced exercise row stays
\* as it is
remoteDeletionWithoutSoftDelete(item, R) ==
    CASE item.type = "template" ->
            [R EXCEPT !.templates =
                {r \in @ : ~(r.user_id = CurrentUser /\ r.local_id = item.localId)}]
      [] item.type = "scheduled_workout" ->
            [R EXCEPT !.scheduled_workouts =
                {r \in @ : ~(r.user_id = CurrentUser /\ r.local_id = item.localId)}]
      [] item.type = "exercise" ->
            IF referencedBySets(R, item.localId) THEN R
            ELSE [R EXCEPT !.exercises = {r \in @ : r.local_id # item.localId}]

\* The effect of one tombstone's confirmed remote deletion on the cloud
remoteDeletion(item, R) ==
    CASE item.type = "template" ->
            [R EXCEPT !.templates =
                {r \in @ : ~(r.user_id = CurrentUser /\ r.local_id = item.localId)}]
      [] item.type = "scheduled_workout" ->
            [R EXCEPT !.scheduled_workouts =
                {r \in @ : ~(r.user_id = CurrentUser /\ r.local_id = item.localId)}]
      [] item.type = "exercise" ->
            IF referencedBySets(R, item.localId)
            THEN [R EXCEPT !.exercises =
                    {IF r.local_id = item.localId THEN [r EXCEPT !.deleted = TRUE] ELSE r :
                        r \in @}]
            ELSE [R EXCEPT !.exercises = {r \in @ : r.local_id # item.localId}]

\* `error` as it would be with the soft delete's error left unread
deletionErrorUnread(item, R, oc) == oc = "err"

\* The value of `error` the loop body ends with: the delete's error for a
\* template or scheduled workout; for an exercise the delete's error unless its
\* code is 23503, and then the soft delete's error
deletionError(item, R, oc) ==
    CASE item.type = "exercise" ->
            IF oc = "err" THEN TRUE
            ELSE IF referencedBySets(R, item.localId) THEN oc = "softErr"
            ELSE FALSE
      [] OTHER -> oc = "err"

\* The loop body with the removal of the tombstone left out
flushItemKeepingTombstone(item, S, oc) ==
    [S EXCEPT !.R = IF deletionConfirmed(item, S.R, oc) THEN remoteDeletion(item, S.R)
                    ELSE S.R,
              !.synced = @ + 1]

\* One iteration of the loop of syncDeletionsToSupabase: with an error the
\* tombstone stays and failed is counted, without one it is removed
flushItem(item, S, oc) ==
    LET after == IF deletionConfirmed(item, S.R, oc) THEN remoteDeletion(item, S.R) ELSE S.R
        conf == IF deletionConfirmed(item, S.R, oc) THEN {item.id} ELSE {}
    IN IF deletionError(item, S.R, oc)
       THEN [S EXCEPT !.R = after,
                      !.failed = @ + 1,
                      !.confirmed = @ \cup conf]
       ELSE [S EXCEPT !.R = after,
                      !.L.deletedItems = {x \in @ : x.id # item.id},
                      !.synced = @ + 1,
                      !.cleared = @ \cup {item.id},
                      !.confirmed = @ \cup conf]

RECURSIVE syncDeletionsLoop(_, _, _, _)
syncDeletionsLoop(ids, snapshot, S, oc) ==
    IF ids = <<>> THEN S
    ELSE syncDeletionsLoop(Tail(ids), snapshot,
                           flushItem(Rec(snapshot, Head(ids)), S, oc[Head(ids)]), oc)

\* syncDeletionsToSupabase; confirmed and cleared record, for the run, the
\* tombstones whose remote call returned without error and those removed
syncDeletionsToSupabase(L, R, oc) ==
    syncDeletionsLoop(SortedSeq(Ids(L.deletedItems)), L.deletedItems,
                      [L |-> L, R |-> R, synced |-> 0, failed |-> 0,
                       cleared |-> {}, confirmed |-> {}], oc)

----------------------------------------------------------------------------
(* User settings *)

\* restTimerDefault ? Number(restTimerDefault) : 90
DefaultRestTimer == 90

\* The values the rest timer control of the settings page offers
RestTimerChoices == {60, 120}

userSettingsRows(R) == {r \in R.user_settings : r.user_id = CurrentUser}

\* settingsData, from localStorage
settingsData(L, t_now) ==
    [user_id |-> CurrentUser,
     rest_timer_enabled |-> L.localStorage.restTimerEnabled = "true",
     rest_timer_seconds |-> IF L.localStorage.restTimerDefault = NoSetting
                            THEN DefaultRestTimer
                            ELSE L.localStorage.restTimerDefault,
     updated_at |-> t_now]

\* if (existing) update(settingsData).eq('id', existing.id) else insert(settingsData);
\* existing is what the select returned, ok is FALSE when the write returns an
\* error (which the code does not read)
writeUserSettings(L, R, existing, t_now, ok) ==
    LET data == settingsData(L, t_now)
    IN IF ~ok THEN R
       ELSE IF existing # {}
       THEN [R EXCEPT !.user_settings =
                {IF r.id \in Ids(existing)
                 THEN [r EXCEPT !.rest_timer_enabled = data.rest_timer_enabled,
                                !.rest_timer_seconds = data.rest_timer_seconds,
                                !.updated_at = data.updated_at]
                 ELSE r : r \in @}]
       ELSE [R EXCEPT !.user_settings = @ \cup
                {[id |-> R.next, user_id |-> data.user_id,
                  rest_timer_enabled |-> data.rest_timer_enabled,
                  rest_timer_seconds |-> data.rest_timer_seconds,
                  updated_at |-> data.updated_at]},
                      !.next = @ + 1]

\* What the select of syncUserSettingsToSupabase returns; its error is not read
selectUserSettings(R, oc) ==
    IF oc = "selectErr" THEN {} ELSE single(userSettingsRows(R))

\* syncUserSettingsToSupabase. oc: "ok", "selectErr" (the select returns an
\* error), "writeErr" (the update or insert returns an error)
syncUserSettingsToSupabase(L, R, t_now, oc) ==
    writeUserSettings(L, R, selectUserSettings(R, oc), t_now, oc # "writeErr")

\* fetchUserSettingsFromSupabase can read the settings: its select returns data
settingsReadable(R) == single(userSettingsRows(R)) # {}

\* String(value) of a boolean
String(value) == IF value THEN "true" ELSE "false"

\* fetchUserSettingsFromSupabase: if (error || !data) return; else the values
\* are written to localStorage (the rows the engine writes hold a boolean and a
\* number, never null)
fetchUserSettingsFromSupabase(L, R, ok) ==
    IF ~ok \/ ~settingsReadable(R) THEN L
    ELSE LET data == CHOOSE r \in single(userSettingsRows(R)) : TRUE
         IN [L EXCEPT !.localStorage.restTimerEnabled = String(data.rest_timer_enabled),
                      !.localStorage.restTimerDefault = data.rest_timer_seconds]

----------------------------------------------------------------------------
(* Local deduplication sweep *)

\* The ids that would be deleted if the last record of each key were kept
earlierDuplicates(T, key) ==
    {r.id : r \in {x \in T : \E q \in T : q.id > x.id /\ key[q] = key[x]}}

\* The ids of the records that are not the first of their key in id order
laterDuplicates(T, key) ==
    {r.id : r \in {x \in T : \E q \in T : q.id < x.id /\ key[q] = key[x]}}

templateKey(t) == toLowerCase(t.name)

scheduledKey(w) == dateNameKey(w.date, w.templateName)

cleanupLocalDuplicates(L) ==
    LET templateDuplicates ==
            laterDuplicates(L.templates, [x \in L.templates |-> templateKey(x)])
        scheduledDuplicates ==
            laterDuplicates(L.scheduledWorkouts,
                            [x \in L.scheduledWorkouts |-> scheduledKey(x)])
    IN [L EXCEPT !.templates = {t \in @ : t.id \notin templateDuplicates},
                 !.scheduledWorkouts = {w \in @ : w.id \notin scheduledDuplicates}]

----------------------------------------------------------------------------
(* State *)

Phases == <<"deletions", "settingsUp", "settingsDown", "exercisesUp", "exercisesDown",
            "templatesUp", "templatesDown", "scheduledUp", "scheduledDown",
            "history", "cleanup">>

\* The succession as it would be with the exercises downloaded before they
\* are uploaded
NextPhaseDownloadFirst(p) ==
    CASE p = "settingsDown" -> "exercisesDown"
      [] p = "exercisesDown" -> "exercisesUp"
      [] p = "exercisesUp" -> "templatesUp"
      [] OTHER -> LET i == CHOOSE k \in DOMAIN Phases : Phases[k] = p
                  IN IF i = Len(Phases) THEN "idle" ELSE Phases[i + 1]

\* The phase that follows p in fullCloudSync ("idle" after the last)
NextPhase(p) ==
    LET i == CHOOSE k \in DOMAIN Phases : Phases[k] = p
    IN IF i = Len(Phases) THEN "idle" ELSE Phases[i + 1]

TemplateNames == {"Push", "push"}
Dates == {1}
ExerciseNames == {"Row", "row"}

\* The muscle groups a user may tick for a new exercise
MuscleGroupChoices == {"Back", "Lats"}

\* A TemplateExercise list as the editors build it: one entry for a local
\* exercise, without exerciseName
ListOf(id) ==
    <<[exerciseId |-> id, instanceId |-> "i1", sets |-> "3x10", exerciseName |-> NoName]>>

\* useSeedData: the default exercises, the same on every device
SeedExercises ==
    {[id |-> 1, name |-> "Bench Press", muscleGroups |-> "Chest", equipment |-> "Barbell"],
     [id |-> 2, name |-> "Squat", muscleGroups |-> "Legs", equipment |-> "Barbell"]}

NewTemplate(id, name, list, t) ==
    [id |-> id, name |-> name, exercises |-> list, createdAt |-> t,
     lastUsed |-> NoTime, synced |-> FALSE]

NewScheduled(id, tpl, date) ==
    [id |-> id, templateId |-> tpl.id, templateName |-> tpl.name, date |-> date,
     notes |-> "", exercises |-> tpl.exercises, completed |-> FALSE, synced |-> FALSE]

\* A device that has been used offline: the seeded exercises and nothing else.
\* first is the id of the device's next template and scheduled workout (ids are
\* not reused after a deletion, so it need not be 1).
EmptyStore(first) ==
    [exercises |-> SeedExercises, templates |-> {}, scheduledWorkouts |-> {},
     deletedItems |-> {}, workouts |-> {}, sets |-> {},
     localStorage |-> [restTimerDefault |-> NoSetting, restTimerEnabled |-> Unset],
     next |-> [exercises |-> 3, templates |-> first,
               scheduledWorkouts |-> first, deletedItems |-> 1,
               workouts |-> 1, sets |-> 1]]

\* ... with one template made in the editor
StoreWithTemplate(first, name, exId) ==
    [EmptyStore(first) EXCEPT !.templates = {NewTemplate(first, name, ListOf(exId), 1)},
                              !.next.templates = first + 1]

\* ... and one workout scheduled from it
StoreWithScheduled(first, name, exId) ==
    [StoreWithTemplate(first, name, exId) EXCEPT
        !.scheduledWorkouts = {NewScheduled(first, NewTemplate(first, name, ListOf(exId), 1), 1)},
        !.next.scheduledWorkouts = first + 1]

EmptyCloud ==
    [templates |-> {}, scheduled_workouts |-> {}, exercises |-> {}, workout_sets |-> {},
     workouts |-> {}, user_settings |-> {},
     next |-> 100]

\* The cloud after device A has finished and uploaded one workout of its
\* exercise 1: syncToSupabase creates the exercises row and the workout_sets row
CloudWithHistory ==
    [EmptyCloud EXCEPT
        !.exercises = {[id |-> 100, local_id |-> 1, name |-> "Bench Press",
                        muscle_group |-> "Chest", equipment |-> "Barbell",
                        deleted |-> FALSE]},
        !.workouts = {[id |-> 101, local_id |-> 1, name |-> "New Workout",
                       start_time |-> 1, end_time |-> 1]},
        !.workout_sets = {[id |-> 102, workout_local_id |-> 1, exercise_id |-> 100,
                           set_number |-> 1]},
        !.next = 103]

\* A device on which n workouts have been recorded and finished while the
\* remote store could not be reached, one a day, each with one set of exercise 1
RECURSIVE StoreWithWorkouts(_)
StoreWithWorkouts(n) ==
    IF n = 0 THEN EmptyStore(1)
    ELSE LET L == StoreWithWorkouts(n - 1)
         IN [L EXCEPT !.workouts = @ \cup
                        {[id |-> n, name |-> "New Workout", startTime |-> n,
                          endTime |-> n, status |-> "completed", synced |-> FALSE]},
                      !.sets = @ \cup
                        {[id |-> n, workoutId |-> n, exerciseId |-> 1, setNumber |-> 1]},
                      !.next.workouts = n + 1,
                      !.next.sets = n + 1]

\* No select result is waiting to be acted on
NothingHeld == [read |-> FALSE, rows |-> {}]

NoStep == [dev |-> "none", phase |-> "none", L |-> <<>>, R |-> <<>>, res |-> <<>>, oc |-> <<>>]

\* Both devices idle, nothing synced yet, with the given local stores and cloud
StartAt(a, b, R, t) ==
    /\ db = [d \in Devices |-> IF d = "A" THEN a ELSE b]
    /\ cloud = R
    /\ now = t
    /\ pc = [d \in Devices |-> "idle"]
    /\ run = [d \in Devices |-> TRUE]
    /\ held = [d \in Devices |-> NothingHeld]
    /\ last = NoStep
    /\ done = <<>>
    /\ ops = 0
    /\ faults = 0
    /\ syncs = 0

Start(a, b, R) == StartAt(a, b, R, 1)

Init ==
    \E a \in {StoreWithTemplate(1, "Push", 1), StoreWithScheduled(1, "Push", 1)} :
    \E b \in {EmptyStore(2), StoreWithScheduled(2, "Push", 2),
               StoreWithScheduled(2, "push", 2)} :
        Start(a, b, EmptyCloud)

AllIdle == \A d \in Devices : pc[d] = "idle"

\* The clock when the next handler or run starts: later than every earlier one
Tick == now + 1

----------------------------------------------------------------------------
(* Local mutations (page handlers) *)

\* An entry of the history kept for the properties: a local mutation or a
\* finished run of fullCloudSync, with the stores as it left them
Event(d, kind, ok, rec, D, R) ==
    [dev |-> d, kind |-> kind, ok |-> ok, rec |-> rec, D |-> D, R |-> R]

\* A page handler of device d leaves the local store L; rec is the record it
\* acted on. The history restarts with the mutation.
Mutation(d, kind, rec, L, maxOps) ==
    /\ AllIdle
    /\ ops < maxOps
    /\ db' = [db EXCEPT ![d] = L]
    /\ now' = Tick
    /\ ops' = ops + 1
    /\ last' = [NoStep EXCEPT !.dev = d, !.phase = kind, !.L = db[d], !.R = cloud]
    /\ done' = <<Event(d, kind, TRUE, rec, db, cloud)>>
    /\ UNCHANGED <<cloud, pc, run, held, faults, syncs>>

\* TemplateEditor.handleSaveTemplate, new template
saveNewTemplate(L, name, list, t) ==
    [L EXCEPT !.templates = @ \cup {NewTemplate(L.next.templates, name, list, t)},
              !.next.templates = @ + 1]

\* TemplateEditor.handleSaveTemplate, existing template: name and exercises only
saveTemplate(L, id, name, list) ==
    [L EXCEPT !.templates = {IF x.id = id THEN [x EXCEPT !.name = name, !.exercises = list]
                             ELSE x : x \in @}]

\* TemplateDetail.handleDelete: the template is deleted, no tombstone is recorded
deleteTemplate(L, id) ==
    [L EXCEPT !.templates = {x \in @ : x.id # id}]

\* ScheduledWorkoutDetail.handleDelete: tombstone, then delete
deleteScheduled(L, w) ==
    [L EXCEPT !.deletedItems = @ \cup
                  {Tombstone(L, "scheduled_workout", w.id, w.templateName, w.date)},
              !.next.deletedItems = @ + 1,
              !.scheduledWorkouts = {x \in @ : x.id # w.id}]

\* Exercises.handleDeleteSelected for one exercise: tombstone, then delete
deleteExercise(L, e) ==
    [L EXCEPT !.deletedItems = @ \cup {Tombstone(L, "exercise", e.id, e.name, NoDate)},
              !.next.deletedItems = @ + 1,
              !.exercises = {x \in @ : x.id # e.id}]

\* Exercises.handleAddExercise: refused when a local exercise has the name,
\* compared case-insensitively; the muscle groups are those ticked in the form
addExercise(L, name, groups) ==
    [L EXCEPT !.exercises = @ \cup
                  {[id |-> L.next.exercises, name |-> name,
                    muscleGroups |-> groups, equipment |-> "Barbell"]},
              !.next.exercises = @ + 1]

HandleSaveNewTemplate(d, maxOps) ==
    \E name \in TemplateNames, e \in db[d].exercises :
        Mutation(d, "saveNewTemplate", [name |-> name],
                 saveNewTemplate(db[d], name, ListOf(e.id), Tick), maxOps)

HandleSaveTemplate(d, maxOps) ==
    \E x \in db[d].templates, name \in TemplateNames, e \in db[d].exercises :
        /\ name # x.name \/ ListOf(e.id) # x.exercises
        /\ Mutation(d, "saveTemplate", x, saveTemplate(db[d], x.id, name, ListOf(e.id)), maxOps)

HandleDeleteTemplate(d, maxOps) ==
    \E x \in db[d].templates :
        Mutation(d, "deleteTemplate", x, deleteTemplate(db[d], x.id), maxOps)

HandleDeleteScheduled(d, maxOps) ==
    \E w \in db[d].scheduledWorkouts :
        Mutation(d, "deleteScheduled", w, deleteScheduled(db[d], w), maxOps)

HandleDeleteExercise(d, maxOps) ==
    \E e \in db[d].exercises :
        Mutation(d, "deleteExercise", e, deleteExercise(db[d], e), maxOps)

HandleAddExercise(d, maxOps) ==
    \E name \in ExerciseNames, groups \in MuscleGroupChoices :
        /\ ~HasExerciseByName(db[d].exercises, toLowerCase(name))
        /\ Mutation(d, "addExercise", [name |-> name],
                    addExercise(db[d], name, groups), maxOps)

----------------------------------------------------------------------------
(* fullCloudSync *)

Reliable == {"ok"}
UpsertOutcomes == {"ok", "writeErr"}
WorkoutUploadOutcomes == {"ok", "upsertErr", "deleteErr", "insertErr"}
UploadOutcomes == {"ok", "selectErr", "writeErr", "dedupErr"}
DeletionOutcomes == {"ok", "err", "softErr"}

Failures(oc) == Cardinality({i \in DOMAIN oc : oc[i] # "ok"})

\* The outcomes of the remote calls of one loop over the records ids: each of
\* the given kinds, with at most maxFaults failures in the whole behaviour
Outcomes(ids, kinds, maxFaults) ==
    {oc \in [ids -> kinds] : Failures(oc) = 0 \/ faults + Failures(oc) <= maxFaults}

\* The outcome of the single select of a download phase
SelectOutcomes(maxFaults) == {ok \in BOOLEAN : ok \/ faults < maxFaults}

SettingsOutcomes(maxFaults) ==
    {oc \in {"ok", "selectErr", "writeErr"} : oc = "ok" \/ faults < maxFaults}

\* The outcome of a download phase: "ok", "selectErr" (the select returns an
\* error, the phase returns), "throws" (a statement of the loop body throws: the
\* function has no try block, so the promise of the phase rejects)
DownloadOutcomes(maxFaults) ==
    {oc \in {"ok", "selectErr", "throws"} : oc = "ok" \/ faults < maxFaults}

\* The number of rows the loop of a download has dealt with when it stops: all
\* n of them, or fewer when the body throws at the next row, in a call of the
\* local store
RowsDone(oc, n) == IF oc = "throws" THEN 0..(n - 1) ELSE {n}

\* The phase device d is in after the given phase: fullCloudSync awaits each
\* phase without a try block, so a phase that rejects ends the run
PhaseAfter(phase, rejected) == IF rejected THEN "idle" ELSE NextPhase(phase)

\* One phase of device d's run: local store L and cloud R after it, the number
\* of remote calls that failed, what is recorded of the step, and whether the
\* promise of the phase rejected
StepFrom(d, phase, L, R, failed, res, oc, rejected) ==
    /\ pc[d] = phase
    /\ db' = [db EXCEPT ![d] = L]
    /\ cloud' = R
    /\ pc' = [pc EXCEPT ![d] = PhaseAfter(phase, rejected)]
    /\ run' = [run EXCEPT ![d] = @ /\ failed = 0]
    /\ faults' = faults + failed
    /\ last' = [dev |-> d, phase |-> phase, L |-> db[d], R |-> cloud, res |-> res, oc |-> oc]
    /\ done' = IF PhaseAfter(phase, rejected) = "idle"
               THEN Append(done, Event(d, "sync", run[d] /\ failed = 0, <<>>,
                                       [db EXCEPT ![d] = L], R))
               ELSE done
    /\ UNCHANGED <<now, ops, syncs>>

\* A phase that returns, acting on nothing read earlier
Step(d, phase, L, R, failed, res, oc) ==
    /\ StepFrom(d, phase, L, R, failed, res, oc, FALSE)
    /\ UNCHANGED held

\* Settings.handleTimeChange: the rest timer default is stored
handleTimeChange(L, value) == [L EXCEPT !.localStorage.restTimerDefault = value]

HandleTimeChange(d, maxOps) ==
    \E value \in RestTimerChoices :
        Mutation(d, "setting", [restTimerDefault |-> value],
                 handleTimeChange(db[d], value), maxOps)

\* Home.startNewWorkout: an active workout without sets
startNewWorkout(L, t_now) ==
    [L EXCEPT !.workouts = @ \cup
                {[id |-> L.next.workouts, name |-> "New Workout", startTime |-> t_now,
                  endTime |-> NoTime, status |-> "active", synced |-> FALSE]},
              !.next.workouts = @ + 1]

\* The page offers "start" when no workout is active, "resume" otherwise
HandleStartNewWorkout(d, maxOps) ==
    /\ \A w \in db[d].workouts : w.status # "active"
    /\ Mutation(d, "startWorkout", [id |-> db[d].next.workouts],
                startNewWorkout(db[d], Tick), maxOps)

\* ActiveWorkout.handleAddExercise: the first set of an exercise
addExerciseToWorkout(L, id, exerciseId) ==
    [L EXCEPT !.sets = @ \cup
                {[id |-> L.next.sets, workoutId |-> id, exerciseId |-> exerciseId,
                  setNumber |-> 1]},
              !.next.sets = @ + 1]

HandleAddExerciseToWorkout(d, maxOps) ==
    \E w \in db[d].workouts, e \in db[d].exercises :
        /\ w.status = "active"
        /\ \A x \in db[d].sets : ~(x.workoutId = w.id /\ x.exerciseId = e.id)
        /\ Mutation(d, "addSet", [id |-> w.id],
                    addExerciseToWorkout(db[d], w.id, e.id), maxOps)

\* ActiveWorkout.finishWorkout: the workout is completed and syncToSupabase is
\* called for it. oc is the outcome of its remote calls
finishWorkout(L, R, id, t_now, oc) ==
    syncToSupabase([L EXCEPT !.workouts =
                       {IF w.id = id
                        THEN [w EXCEPT !.status = "completed", !.endTime = t_now]
                        ELSE w : w \in @}],
                   R, id, oc)

\* A page handler of device d that also calls the remote store: it leaves the
\* local store L and the cloud R
RemoteMutation(d, kind, L, R, res, oc, maxOps) ==
    /\ AllIdle
    /\ ops < maxOps
    /\ db' = [db EXCEPT ![d] = L]
    /\ cloud' = R
    /\ now' = Tick
    /\ ops' = ops + 1
    /\ last' = [dev |-> d, phase |-> kind, L |-> db[d], R |-> cloud, res |-> res, oc |-> oc]
    /\ done' = <<Event(d, kind, TRUE, res, [db EXCEPT ![d] = L], R)>>
    /\ UNCHANGED <<pc, run, held, faults, syncs>>

HandleFinishWorkout(d, kinds, maxOps) ==
    \E w \in db[d].workouts, oc \in kinds :
        /\ w.status = "active"
        /\ LET S == finishWorkout(db[d], cloud, w.id, Tick, oc)
           IN RemoteMutation(d, "finish", S.L, S.R,
                             [id |-> w.id, synced |-> IF S.ok THEN 1 ELSE 0,
                              uploaded |-> IF S.ok THEN {w.id} ELSE {}],
                             oc, maxOps)

\* Settings.handleForceSyncAll: syncAllPendingWorkouts(true), every remote call
\* succeeding
HandleForceSyncAll(d, maxOps) ==
    LET S == syncAllPendingWorkouts(db[d], cloud, TRUE,
                                    [id \in Ids(db[d].exercises) |-> "ok"],
                                    [id \in Ids(completedWorkouts(db[d])) |-> "ok"])
    IN RemoteMutation(d, "forceSync", S.L, S.R,
                      [synced |-> S.synced, failed |-> S.failed, uploaded |-> S.uploaded],
                      "ok", maxOps)

\* AuthProvider.performSync has no guard against a run in progress: a run starts
\* on device d while the other device's run is between two of its awaits
StartOverlappingSync(d, maxSyncs) ==
    /\ pc[d] = "idle"
    /\ syncs < maxSyncs
    /\ pc' = [pc EXCEPT ![d] = Phases[1]]
    /\ run' = [run EXCEPT ![d] = TRUE]
    /\ now' = Tick
    /\ syncs' = syncs + 1
    /\ last' = [NoStep EXCEPT !.dev = d, !.phase = "start", !.L = db[d], !.R = cloud]
    /\ UNCHANGED <<db, cloud, held, done, ops, faults>>

\* AuthProvider.performSync: fullCloudSync starts
StartSync(d, maxSyncs) ==
    /\ AllIdle
    /\ syncs < maxSyncs
    /\ pc' = [pc EXCEPT ![d] = Phases[1]]
    /\ run' = [run EXCEPT ![d] = TRUE]
    /\ now' = Tick
    /\ syncs' = syncs + 1
    /\ last' = [NoStep EXCEPT !.dev = d, !.phase = "start", !.L = db[d], !.R = cloud]
    /\ UNCHANGED <<db, cloud, held, done, ops, faults>>

SyncDeletions(d, kinds, maxFaults) ==
    \E oc \in Outcomes(Ids(db[d].deletedItems), kinds, maxFaults) :
        /\ \A item \in db[d].deletedItems :
              oc[item.id] = "softErr" =>
                  item.type = "exercise" /\ referencedBySets(cloud, item.localId)
        /\ LET S == syncDeletionsToSupabase(db[d], cloud, oc)
           IN Step(d, "deletions", S.L, S.R, Failures(oc),
                   [synced |-> S.synced, failed |-> S.failed,
                    cleared |-> S.cleared, confirmed |-> S.confirmed], oc)

\* syncUserSettingsToSupabase, its select and its write in one step
SyncUserSettings(d, maxFaults) ==
    \E oc \in SettingsOutcomes(maxFaults) :
        /\ ~held[d].read
        /\ Step(d, "settingsUp", db[d], syncUserSettingsToSupabase(db[d], cloud, now, oc),
                IF oc = "ok" THEN 0 ELSE 1, <<>>, oc)

\* syncUserSettingsToSupabase up to its first await: the select of the user's row
SelectUserSettings(d) ==
    /\ pc[d] = "settingsUp"
    /\ ~held[d].read
    /\ held' = [held EXCEPT ![d] = [read |-> TRUE, rows |-> selectUserSettings(cloud, "ok")]]
    /\ UNCHANGED <<db, cloud, now, pc, run, last, done, ops, faults, syncs>>

\* syncUserSettingsToSupabase after the select has returned: the update or the
\* insert, decided by what the select returned
WriteUserSettings(d) ==
    /\ held[d].read
    /\ StepFrom(d, "settingsUp", db[d],
                writeUserSettings(db[d], cloud, held[d].rows, now, TRUE),
                0, [existing |-> held[d].rows], "ok", FALSE)
    /\ held' = [held EXCEPT ![d] = NothingHeld]

FetchUserSettings(d, maxFaults) ==
    \E ok \in SelectOutcomes(maxFaults) :
        Step(d, "settingsDown", fetchUserSettingsFromSupabase(db[d], cloud, ok), cloud,
             IF ok THEN 0 ELSE 1, [ok |-> ok], <<>>)

SyncExercises(d, kinds, maxFaults) ==
    \E oc \in Outcomes(Ids(db[d].exercises), kinds, maxFaults) :
        LET S == syncExercises(db[d], cloud, oc)
        IN Step(d, "exercisesUp", S.L, S.R, Failures(oc),
                [synced |-> S.synced, failed |-> S.failed], oc)

\* What is recorded of a download: whether it went through without error
Downloaded(oc) == [ok |-> oc = "ok", rejected |-> oc = "throws"]

FetchExercises(d, maxFaults) ==
    \E oc \in DownloadOutcomes(maxFaults), h \in Perms(Ids(cloud.exercises)) :
    \E k \in RowsDone(oc, Cardinality(fetchedExercises(cloud))) :
        /\ oc = "throws" => exerciseRowIsWritten(exercisesData(cloud, h)[k + 1], db[d].exercises)
        /\ StepFrom(d, "exercisesDown", fetchExercisesFromSupabase(db[d], cloud, h, oc, k),
                    cloud, IF oc = "ok" THEN 0 ELSE 1, Downloaded(oc), <<>>, oc = "throws")
        /\ UNCHANGED held

\* The delete of the duplicate rows is issued for the local template t: it is
\* the first local template of its name and two or more rows have that name
templateHasDuplicates(L, R, t) ==
    /\ Cardinality({r \in R.templates : r.user_id = CurrentUser /\ r.name = t.name}) >= 2
    /\ \A x \in L.templates : x.name = t.name => t.id <= x.id

SyncTemplates(d, kinds, maxFaults) ==
    \E oc \in Outcomes(Ids(db[d].templates), kinds, maxFaults),
       h \in Perms(Ids(cloud.templates)) :
        /\ \A t \in db[d].templates :
               oc[t.id] = "dedupErr" => templateHasDuplicates(db[d], cloud, t)
        /\ LET S == syncTemplatesToSupabase(db[d], cloud, now, h, oc)
           IN Step(d, "templatesUp", S.L, S.R, Failures(oc),
                [synced |-> S.synced, failed |-> S.failed], oc)

FetchTemplates(d, maxFaults) ==
    \E oc \in DownloadOutcomes(maxFaults), h \in Perms(Ids(cloud.templates)) :
    \E k \in RowsDone(oc, Cardinality(fetchedTemplates(cloud))) :
        /\ oc = "throws" => templateRowIsWritten(templatesData(cloud, h)[k + 1], db[d].templates)
        /\ StepFrom(d, "templatesDown", fetchTemplatesFromSupabase(db[d], cloud, h, oc, k),
                    cloud, IF oc = "ok" THEN 0 ELSE 1, Downloaded(oc), <<>>, oc = "throws")
        /\ UNCHANGED held

scheduledHasDuplicates(L, R, w) ==
    /\ Cardinality({r \in R.scheduled_workouts :
                        /\ r.user_id = CurrentUser
                        /\ r.date = w.date
                        /\ r.template_name = w.templateName}) >= 2
    /\ \A x \in L.scheduledWorkouts :
           (x.date = w.date /\ x.templateName = w.templateName) => w.id <= x.id

SyncScheduledWorkouts(d, kinds, maxFaults) ==
    \E oc \in Outcomes(Ids(db[d].scheduledWorkouts), kinds, maxFaults),
       h \in Perms(Ids(cloud.scheduled_workouts)) :
        /\ \A w \in db[d].scheduledWorkouts :
               oc[w.id] = "dedupErr" => scheduledHasDuplicates(db[d], cloud, w)
        /\ LET S == syncScheduledWorkoutsToSupabase(db[d], cloud, h, oc)
           IN Step(d, "scheduledUp", S.L, S.R, Failures(oc),
                [synced |-> S.synced, failed |-> S.failed], oc)

FetchScheduledWorkouts(d, maxFaults) ==
    \E oc \in DownloadOutcomes(maxFaults), h \in Perms(Ids(cloud.scheduled_workouts)) :
    \E k \in RowsDone(oc, Cardinality(fetchedScheduledWorkouts(cloud))) :
        /\ oc = "throws" =>
               scheduledRowIsWritten(scheduledData(cloud, h)[k + 1], db[d].scheduledWorkouts)
        /\ StepFrom(d, "scheduledDown",
                    fetchScheduledWorkoutsFromSupabase(db[d], cloud, h, oc, k),
                    cloud, IF oc = "ok" THEN 0 ELSE 1, Downloaded(oc), <<>>, oc = "throws")
        /\ UNCHANGED held

\* syncAllPendingWorkouts(false): syncExercises again, then the completed
\* workouts not yet synced
\* The outcomes of the remote calls of syncToSupabase for the workouts ids
WorkoutOutcomes(ids, maxFaults) ==
    Outcomes(ids, IF maxFaults = 0 THEN Reliable ELSE WorkoutUploadOutcomes, maxFaults)

\* fullCloudSync: syncAllPendingWorkouts(false)
SyncAllPendingWorkouts(d, kinds, maxFaults) ==
    \E oc \in Outcomes(Ids(db[d].exercises), kinds, maxFaults) :
        \E ocW \in WorkoutOutcomes(Ids(workoutsToSync(db[d], FALSE)), maxFaults) :
            /\ IF Failures(oc) + Failures(ocW) = 0 THEN TRUE
               ELSE faults + Failures(oc) + Failures(ocW) <= maxFaults
            /\ LET S == syncAllPendingWorkouts(db[d], cloud, FALSE, oc, ocW)
               IN Step(d, "history", S.L, S.R, Failures(oc) + Failures(ocW),
                       [synced |-> S.synced, failed |-> S.failed,
                        uploaded |-> S.uploaded, ocW |-> ocW], oc)

CleanupLocalDuplicates(d) ==
    Step(d, "cleanup", cleanupLocalDuplicates(db[d]), cloud, 0, <<>>, <<>>)

----------------------------------------------------------------------------
(* Spec: two devices, local mutations, runs in which every remote call succeeds *)

Next ==
    \E d \in Devices :
        \/ HandleSaveNewTemplate(d, MaxOps)
        \/ HandleSaveTemplate(d, MaxOps)
        \/ HandleDeleteTemplate(d, MaxOps)
        \/ HandleDeleteScheduled(d, MaxOps)
        \/ HandleDeleteExercise(d, MaxOps)
        \/ StartSync(d, MaxSyncs)
        \/ SyncDeletions(d, Reliable, 0)
        \/ SyncUserSettings(d, 0)
        \/ FetchUserSettings(d, 0)
        \/ SyncExercises(d, Reliable, 0)
        \/ FetchExercises(d, 0)
        \/ SyncTemplates(d, Reliable, 0)
        \/ FetchTemplates(d, 0)
        \/ SyncScheduledWorkouts(d, Reliable, 0)
        \/ FetchScheduledWorkouts(d, 0)
        \/ SyncAllPendingWorkouts(d, Reliable, 0)
        \/ CleanupLocalDuplicates(d)

Spec == Init /\ [][Next]_vars

----------------------------------------------------------------------------
(* Properties of Spec *)

\* The remote store holds a row for the record the tombstone item stands for
HasRemoteRecord(R, item) ==
    CASE item.type = "template" ->
            \E r \in R.templates : r.user_id = CurrentUser /\ r.name = item.name
      [] item.type = "scheduled_workout" ->
            \E r \in R.scheduled_workouts :
                r.user_id = CurrentUser /\ r.date = item.date /\ r.template_name = item.name
      [] OTHER ->
            \E r \in R.exercises :
                r.local_id = item.localId
                /\ ~(r.deleted /\ referencedBySets(R, item.localId))

\* C2: for every tombstone the flush counts as synced, when the flush returns
\* the tombstone is absent from deletedItems and the remote store holds no row
\* for the deleted record (same user and natural key), whatever uploads came
\* before, those of another device included.
SyncedTombstoneLeavesNoRemoteRow ==
    last.phase = "deletions" =>
        \A item \in last.L.deletedItems :
            item.id \in last.res.cleared =>
                /\ item \notin db[last.dev].deletedItems
                /\ ~HasRemoteRecord(cloud, item)

\* A flush that counted a scheduled workout's tombstone as synced while the row
\* with its date and template name, last uploaded by the other device, remains
SyncedTombstoneRowRemains ==
    /\ last.phase = "deletions"
    /\ \E item \in last.L.deletedItems :
           /\ item.type = "scheduled_workout"
           /\ item.id \in last.res.cleared
           /\ \E r \in cloud.scheduled_workouts :
                  /\ r.user_id = CurrentUser
                  /\ r.date = item.date
                  /\ r.template_name = item.name
                  /\ r.local_id # item.localId

\* C3: a template named N exists locally and remotely; the user deletes it and
\* one fullCloudSync runs with every remote call succeeding: afterwards no
\* remote templates row named N exists for the user and deletedItems is empty.
DeletedTemplateLeavesCloud ==
    (/\ Len(done) = 2
     /\ done[1].kind = "deleteTemplate"
     /\ done[2].kind = "sync" /\ done[2].dev = done[1].dev /\ done[2].ok
     /\ \E r \in done[1].R.templates :
            r.user_id = CurrentUser /\ r.name = done[1].rec.name)
    => /\ ~\E r \in done[2].R.templates :
              r.user_id = CurrentUser /\ r.name = done[1].rec.name
       /\ done[2].D[done[1].dev].deletedItems = {}

\* The deleted template is back in the local store after the run, and its
\* remote row is still there
DeletedTemplateComesBack ==
    /\ Len(done) = 2
    /\ done[1].kind = "deleteTemplate"
    /\ done[2].kind = "sync" /\ done[2].dev = done[1].dev /\ done[2].ok
    /\ \E r \in done[2].R.templates :
           r.user_id = CurrentUser /\ r.name = done[1].rec.name
    /\ \E t \in done[2].D[done[1].dev].templates : t.name = done[1].rec.name

\* Since the last mutation: device a deleted the scheduled workout done[1].rec,
\* its remote row existed and a's run removed it, and device b held the workout
\* marked synced
DeletionPropagated(a, b) ==
    /\ Len(done) >= 2
    /\ done[1].kind = "deleteScheduled" /\ done[1].dev = a
    /\ done[2].kind = "sync" /\ done[2].dev = a /\ done[2].ok
    /\ \E r \in done[1].R.scheduled_workouts :
           dateNameKey(r.date, r.template_name) = scheduledKey(done[1].rec)
    /\ ~\E r \in done[2].R.scheduled_workouts :
           dateNameKey(r.date, r.template_name) = scheduledKey(done[1].rec)
    /\ \E x \in done[1].D[b].scheduledWorkouts :
           x.synced /\ scheduledKey(x) = scheduledKey(done[1].rec)

\* C4: device A deletes a scheduled workout and A's run removes its remote row;
\* on device B, where the record is marked synced and is not modified, the
\* record is absent after B's next run with every remote call succeeding, and
\* after every later run. (No handler records a tombstone for a template, so no
\* run removes a template's remote row.)
RemoteDeletionReachesOtherDevice ==
    \A a, b \in Devices :
        a # b /\ DeletionPropagated(a, b) =>
            \A i \in 3..Len(done) :
                (done[i].dev = b /\ \A j \in 3..i : done[j].ok) =>
                    ~\E x \in done[i].D[b].scheduledWorkouts :
                          scheduledKey(x) = scheduledKey(done[1].rec)

\* After B's run the workout A deleted is still on B and is in the cloud again
DeletedWorkoutResurrected ==
    \E a, b \in Devices :
        /\ a # b /\ DeletionPropagated(a, b)
        /\ Len(done) = 3 /\ done[3].dev = b /\ done[3].ok
        /\ \E x \in done[3].D[b].scheduledWorkouts :
               scheduledKey(x) = scheduledKey(done[1].rec)
        /\ \E r \in done[3].R.scheduled_workouts :
               dateNameKey(r.date, r.template_name) = scheduledKey(done[1].rec)

\* C5: after fetchTemplatesFromSupabase, for a remote template matched to a
\* local template by case-insensitive name, the local template's exercises are
\* the remote's if the remote timestamp (updated_at, else created_at) is later
\* than the local one (lastUsed, else createdAt), and the local template is
\* unchanged if it is not later.
DownloadTakesRemoteIffNewer ==
    (last.phase = "templatesDown" /\ last.res.ok) =>
        \A r \in last.R.templates :
            (r.user_id = CurrentUser
             /\ HasLocalByName(last.L.templates, toLowerCase(r.name))) =>
                LET t == localByName(last.L.templates, toLowerCase(r.name))
                IN IF cloudUpdated(r) > localUpdated(t)
                   THEN \E x \in db[last.dev].templates :
                            /\ x.id = t.id
                            /\ x.exercises =
                                   convertExercisesFromCloud(last.L.exercises, r.exercises)
                   ELSE t \in db[last.dev].templates

\* A download after which a local template holds the exercises of the older of
\* two remote rows that match it, both newer than the local template
OlderRowOverwritesNewer ==
    /\ last.phase = "templatesDown" /\ last.res.ok
    /\ \E r1, r2 \in last.R.templates, t \in last.L.templates :
           /\ toLowerCase(r1.name) = toLowerCase(t.name)
           /\ toLowerCase(r2.name) = toLowerCase(t.name)
           /\ cloudUpdated(r1) > cloudUpdated(r2)
           /\ cloudUpdated(r2) > localUpdated(t)
           /\ \E x \in db[last.dev].templates :
                  /\ x.id = t.id
                  /\ x.exercises = convertExercisesFromCloud(last.L.exercises, r2.exercises)
                  /\ x.exercises # convertExercisesFromCloud(last.L.exercises, r1.exercises)

\* The finished runs since the last mutation
Runs == IF done # <<>> /\ done[1].kind # "sync" THEN Tail(done) ELSE done

\* The runs alternate between the devices and every remote call succeeded
AlternatingCleanRuns ==
    /\ \A i \in DOMAIN Runs : Runs[i].ok
    /\ \A i \in 1..(Len(Runs) - 1) : Runs[i].dev # Runs[i + 1].dev

\* The content of an exercise list, in terms every store shares: names
localContent(exercises, list) ==
    [i \in DOMAIN list |->
        [name |-> idToName(exercises, list[i].exerciseId),
         instanceId |-> list[i].instanceId, sets |-> list[i].sets]]

remoteContent(list) ==
    [i \in DOMAIN list |->
        [name |-> list[i].exerciseName,
         instanceId |-> list[i].instanceId, sets |-> list[i].sets]]

\* The content a store holds for each template key and each scheduled-workout key
localTemplateVersions(L) ==
    {<<templateKey(t), localContent(L.exercises, t.exercises)>> : t \in L.templates}

localScheduledVersions(L) ==
    {<<scheduledKey(w), localContent(L.exercises, w.exercises)>> : w \in L.scheduledWorkouts}

remoteTemplateVersions(R) ==
    {<<toLowerCase(r.name), remoteContent(r.exercises)>> : r \in R.templates}

remoteScheduledVersions(R) ==
    {<<dateNameKey(r.date, r.template_name), remoteContent(r.exercises)>> :
        r \in R.scheduled_workouts}

\* What the two devices and the remote store hold after the run e
Versions(e) ==
    [templates |-> [d \in Devices |-> localTemplateVersions(e.D[d])],
     scheduled |-> [d \in Devices |-> localScheduledVersions(e.D[d])],
     remoteTemplates |-> remoteTemplateVersions(e.R),
     remoteScheduled |-> remoteScheduledVersions(e.R)]

Converged(e) ==
    \A d \in Devices :
        /\ Versions(e).templates[d] = Versions(e).remoteTemplates
        /\ Versions(e).scheduled[d] = Versions(e).remoteScheduled

\* C6: with no further local mutation, runs of fullCloudSync that alternate
\* between the two devices, every remote call succeeding, reach a state in which
\* both devices and the remote store hold the same content for every template
\* and scheduled-workout key. Finite form: it is reached within MaxSyncs runs.
AlternatingSyncsConverge ==
    (Len(Runs) = MaxSyncs /\ AlternatingCleanRuns) => Converged(Runs[Len(Runs)])

\* Four alternating runs without a mutation after which the stores differ and
\* hold what they held two runs before: the runs repeat with period two
AlternatingSyncsCycle ==
    /\ Len(Runs) = 4 /\ AlternatingCleanRuns
    /\ ~Converged(Runs[4])
    /\ Versions(Runs[4]) = Versions(Runs[2])
    /\ Versions(Runs[3]) = Versions(Runs[1])

\* The records of a store, without its id counters
localTables(L) ==
    [x \in {"exercises", "templates", "scheduledWorkouts", "deletedItems", "workouts",
             "sets", "localStorage"} |-> L[x]]

remoteTables(R) ==
    [x \in {"exercises", "templates", "scheduled_workouts", "workouts", "workout_sets",
             "user_settings"} |-> R[x]]

\* done[i] and done[i + 1] are runs of one device with every remote call
\* succeeding, and nothing happened between them
RunsBackToBack(i) ==
    /\ done[i].kind = "sync" /\ done[i + 1].kind = "sync"
    /\ done[i].dev = done[i + 1].dev
    /\ done[i].ok /\ done[i + 1].ok

\* C7: fullCloudSync run twice in a row on one device, every remote call
\* succeeding and nothing in between: after the second run the local store and
\* the remote store hold the records and field values they held after the first.
SecondSyncChangesNothing ==
    \A i \in 1..(Len(done) - 1) :
        RunsBackToBack(i) =>
            /\ localTables(done[i + 1].D[done[i].dev]) = localTables(done[i].D[done[i].dev])
            /\ remoteTables(done[i + 1].R) = remoteTables(done[i].R)

\* A second run in a row that rewrote a remote template's updated_at and a
\* local template's lastUsed, the content being the same
SecondSyncRewritesTimestamps ==
    \E i \in 1..(Len(done) - 1) :
        /\ RunsBackToBack(i)
        /\ \E r1 \in done[i].R.templates, r2 \in done[i + 1].R.templates :
               r1.id = r2.id /\ r1.exercises = r2.exercises /\ r1.updated_at < r2.updated_at
        /\ \E t1 \in done[i].D[done[i].dev].templates,
              t2 \in done[i + 1].D[done[i].dev].templates :
               t1.id = t2.id /\ t1.exercises = t2.exercises /\ t1.lastUsed < t2.lastUsed

\* The phase that may start when the given one has finished; a run starts with
\* the tombstone flush and is over after the local deduplication sweep
FixedOrder ==
    {<<"idle", "deletions">>, <<"deletions", "settingsUp">>,
     <<"settingsUp", "settingsDown">>, <<"settingsDown", "exercisesUp">>,
     <<"exercisesUp", "exercisesDown">>, <<"exercisesDown", "templatesUp">>,
     <<"templatesUp", "templatesDown">>, <<"templatesDown", "scheduledUp">>,
     <<"scheduledUp", "scheduledDown">>, <<"scheduledDown", "history">>,
     <<"history", "cleanup">>, <<"cleanup", "idle">>}

\* C12: within one fullCloudSync call the phases run in the order tombstone
\* flush, settings upload, settings download, exercise upload, exercise
\* download, template upload, template download, scheduled-workout upload,
\* scheduled-workout download, workout-history upload, local deduplication
\* sweep: a device's position only ever moves from a phase that has finished to
\* the next one of that order.
PhasesRunInFixedOrder ==
    [][\A d \in Devices : pc'[d] # pc[d] => <<pc[d], pc'[d]>> \in FixedOrder]_vars

\* A run that went through every phase: the deduplication sweep was its last
\* step and the device is idle again
RunWentThroughEveryPhase ==
    /\ last.phase = "cleanup"
    /\ pc[last.dev] = "idle"
    /\ done # <<>> /\ done[Len(done)].kind = "sync" /\ done[Len(done)].dev = last.dev

----------------------------------------------------------------------------
(* SpecFlush: the tombstone flush with failing remote calls *)

InitFlush ==
    \E R \in {EmptyCloud, CloudWithHistory} :
        Start(StoreWithScheduled(1, "Push", 1), EmptyStore(2), R)

NextFlush ==
    \E d \in {"A"} :
        \/ HandleDeleteScheduled(d, FlushOps)
        \/ HandleDeleteExercise(d, FlushOps)
        \/ StartSync(d, FlushSyncs)
        \/ SyncDeletions(d, DeletionOutcomes, FlushFaults)
        \/ SyncUserSettings(d, 0)
        \/ FetchUserSettings(d, 0)
        \/ SyncExercises(d, Reliable, 0)
        \/ FetchExercises(d, 0)
        \/ SyncTemplates(d, Reliable, 0)
        \/ FetchTemplates(d, 0)
        \/ SyncScheduledWorkouts(d, Reliable, 0)
        \/ FetchScheduledWorkouts(d, 0)
        \/ SyncAllPendingWorkouts(d, Reliable, 0)
        \/ CleanupLocalDuplicates(d)

SpecFlush == InitFlush /\ [][NextFlush]_vars

\* C1: when syncDeletionsToSupabase returns, a tombstone it removed from
\* deletedItems is one whose remote delete (for an exercise refused with 23503,
\* the soft delete) returned without error, and a tombstone whose remote call
\* returned an error or threw is still in deletedItems.
FlushClearsOnlyConfirmedDeletions ==
    last.phase = "deletions" =>
        \A item \in last.L.deletedItems :
            /\ item \notin db[last.dev].deletedItems => item.id \in last.res.confirmed
            /\ last.oc[item.id] # "ok" => item \in db[last.dev].deletedItems

\* A flush that removed one tombstone and kept another whose remote call failed
FlushClearedOneAndKeptOne ==
    /\ last.phase = "deletions"
    /\ \E item \in last.L.deletedItems :
           item \notin db[last.dev].deletedItems /\ item.id \in last.res.confirmed
    /\ \E item \in last.L.deletedItems :
           last.oc[item.id] # "ok" /\ item \in db[last.dev].deletedItems

\* The remote exercises rows of a tombstone's local_id
tombstoneRows(R, item) == {r \in R.exercises : r.local_id = item.localId}

\* C15: when the hard delete of an exercise tombstone is refused with the
\* referential-integrity error 23503, the flush issues a soft delete
\* (deleted = true) for the same local_id; if the soft delete succeeds the
\* tombstone is removed and counted synced, if it fails the tombstone stays and
\* is counted failed; any other delete error is counted failed without a
\* soft-delete attempt and leaves the tombstone pending.
ReferencedExerciseIsSoftDeleted ==
    last.phase = "deletions" =>
        LET before == last.L.deletedItems
            after == db[last.dev].deletedItems
        IN /\ last.res.synced = Cardinality(before \ after)
           /\ last.res.failed = Cardinality(before \cap after)
           /\ \A item \in before :
                  item.type = "exercise" =>
                      /\ (referencedBySets(last.R, item.localId) /\ last.oc[item.id] = "ok")
                             => /\ item \notin after
                                /\ tombstoneRows(cloud, item) =
                                       {[r EXCEPT !.deleted = TRUE] :
                                            r \in tombstoneRows(last.R, item)}
                      /\ (referencedBySets(last.R, item.localId)
                               /\ last.oc[item.id] = "softErr")
                             => /\ item \in after
                                /\ tombstoneRows(cloud, item) = tombstoneRows(last.R, item)
                      /\ last.oc[item.id] = "err"
                             => /\ item \in after
                                /\ tombstoneRows(cloud, item) = tombstoneRows(last.R, item)

\* A flush whose hard delete of a referenced exercise was refused and whose
\* soft delete succeeded: the row is still there, now marked deleted
RefusedDeleteBecameSoftDelete ==
    /\ last.phase = "deletions"
    /\ \E item \in last.L.deletedItems :
           /\ item.type = "exercise"
           /\ referencedBySets(last.R, item.localId)
           /\ last.oc[item.id] = "ok"
           /\ item \notin db[last.dev].deletedItems
           /\ \E r \in tombstoneRows(last.R, item) : ~r.deleted
           /\ tombstoneRows(cloud, item) # {}
           /\ \A r \in tombstoneRows(cloud, item) : r.deleted

----------------------------------------------------------------------------
(* SpecUpload: uploads with failing remote calls *)

InitUpload ==
    \E b \in {EmptyStore(2), StoreWithTemplate(2, "Push", 2)} :
        Start(StoreWithScheduled(1, "Push", 1), b, EmptyCloud)

NextUpload ==
    \E d \in Devices :
        \/ HandleSaveNewTemplate(d, UploadOps)
        \/ StartSync(d, UploadSyncs)
        \/ SyncDeletions(d, Reliable, 0)
        \/ SyncUserSettings(d, 0)
        \/ FetchUserSettings(d, 0)
        \/ SyncExercises(d, Reliable, 0)
        \/ FetchExercises(d, 0)
        \/ SyncTemplates(d, UploadOutcomes, UploadFaults)
        \/ FetchTemplates(d, 0)
        \/ SyncScheduledWorkouts(d, Reliable, 0)
        \/ FetchScheduledWorkouts(d, 0)
        \/ SyncAllPendingWorkouts(d, Reliable, 0)
        \/ CleanupLocalDuplicates(d)

SpecUpload == InitUpload /\ [][NextUpload]_vars

\* The remote rows of the current user with the template's name
rowsNamed(R, name) == {r \in R.templates : r.user_id = CurrentUser /\ r.name = name}

\* The local template with the highest id among those named like t
lastNamedLike(templates, t) ==
    CHOOSE x \in templates : x.name = t.name /\ \A y \in templates : y.name = t.name => y.id <= x.id

NamedForCloud(exercises, list, out) ==
    /\ Len(out) = Len(list)
    /\ \A i \in DOMAIN list :
           /\ out[i].exerciseId = list[i].exerciseId
           /\ out[i].instanceId = list[i].instanceId
           /\ out[i].sets = list[i].sets
           /\ \/ \E e \in exercises : e.id = list[i].exerciseId /\ out[i].exerciseName = e.name
              \/ /\ list[i].exerciseId \notin Ids(exercises)
                 /\ out[i].exerciseName = "Unknown Exercise"

\* out is list with each entry's exerciseId resolved from its exerciseName
ResolvedFromCloud(exercises, list, out) ==
    /\ Len(out) = Len(list)
    /\ \A i \in DOMAIN list :
           /\ out[i].exerciseName = list[i].exerciseName
           /\ out[i].instanceId = list[i].instanceId
           /\ out[i].sets = list[i].sets
           /\ \/ \E e \in exercises :
                    /\ toLowerCase(e.name) = toLowerCase(list[i].exerciseName)
                    /\ out[i].exerciseId = e.id
              \/ /\ ~\E e \in exercises :
                        toLowerCase(e.name) = toLowerCase(list[i].exerciseName)
                 /\ out[i].exerciseId = list[i].exerciseId

\* C10: every exercises list the engine writes to the remote templates or
\* scheduled_workouts table is a local list converted to names (every entry
\* carries an exerciseName), and every exercises list it writes to the local
\* templates or scheduledWorkouts collection from remote data is a remote list
\* with its ids resolved from the names.
EveryWrittenListIsConverted ==
    /\ \A r \in cloud.templates \cup cloud.scheduled_workouts :
           \A i \in DOMAIN r.exercises : r.exercises[i].exerciseName # NoName
    /\ last.phase = "templatesUp" =>
           \A r \in cloud.templates \ last.R.templates :
               \E t \in last.L.templates :
                   NamedForCloud(last.L.exercises, t.exercises, r.exercises)
    /\ last.phase = "scheduledUp" =>
           \A r \in cloud.scheduled_workouts \ last.R.scheduled_workouts :
               \E w \in last.L.scheduledWorkouts :
                   NamedForCloud(last.L.exercises, w.exercises, r.exercises)
    /\ last.phase = "templatesDown" =>
           \A x \in db[last.dev].templates \ last.L.templates :
               \E r \in last.R.templates :
                   ResolvedFromCloud(last.L.exercises, r.exercises, x.exercises)
    /\ last.phase = "scheduledDown" =>
           \A x \in db[last.dev].scheduledWorkouts \ last.L.scheduledWorkouts :
               \E r \in last.R.scheduled_workouts :
                   ResolvedFromCloud(last.L.exercises, r.exercises, x.exercises)

\* A download that added a scheduled workout whose list the other device uploaded
DownloadedListOfOtherDevice ==
    /\ last.phase = "scheduledDown"
    /\ \E x \in db[last.dev].scheduledWorkouts \ last.L.scheduledWorkouts :
           /\ x.id \notin Ids(last.L.scheduledWorkouts)
           /\ \E r \in last.R.scheduled_workouts :
                  /\ r.local_id # x.id
                  /\ ResolvedFromCloud(last.L.exercises, r.exercises, x.exercises)

----------------------------------------------------------------------------
(* SpecConv: the name-resolution round trip *)

\* The cloud after two other devices of the user have uploaded the exercises
\* they added: "Row" on one, "row" on the other (each upsert keyed by the
\* device's local id)
CloudWithCaseVariants ==
    [EmptyCloud EXCEPT
        !.exercises = {[id |-> 100, local_id |-> 3, name |-> "Row",
                        muscle_group |-> "Back", equipment |-> "Barbell", deleted |-> FALSE],
                       [id |-> 101, local_id |-> 4, name |-> "row",
                        muscle_group |-> "Back", equipment |-> "Barbell", deleted |-> FALSE]},
        !.next = 102]

\* An exercise id no local exercise has
MissingId == 9

\* The entries a TemplateExercise list of the device can hold
Entries(L) ==
    [exerciseId : Ids(L.exercises) \cup {MissingId}, instanceId : {"i1", "i2"},
     sets : {"3x10"}, exerciseName : {NoName}]

RECURSIVE Lists(_, _)
Lists(S, n) ==
    IF n = 0 THEN {<<>>}
    ELSE Lists(S, n - 1) \cup {Append(l, x) : l \in {q \in Lists(S, n - 1) : Len(q) = n - 1}, x \in S}

\* convertExercisesFromCloud(convertExercisesToNamesForCloud(list)) on device d,
\* the exercise collection not changing in between
RoundTrip(d) ==
    /\ AllIdle
    /\ \E list \in Lists(Entries(db[d]), MaxLen) :
           last' = [dev |-> d, phase |-> "roundTrip", L |-> db[d], R |-> cloud,
                    res |-> [list |-> list,
                             back |-> convertExercisesFromCloud(db[d].exercises,
                                         convertExercisesToNamesForCloud(db[d].exercises, list))],
                    oc |-> <<>>]
    /\ UNCHANGED <<db, cloud, now, pc, run, held, done, ops, faults, syncs>>

InitConv ==
    \E R \in {EmptyCloud, CloudWithCaseVariants} :
        Start(StoreWithTemplate(1, "Push", 1), EmptyStore(2), R)

NextConv ==
    \E d \in {"A"} :
        \/ HandleAddExercise(d, ConvOps)
        \/ HandleDeleteExercise(d, ConvOps)
        \/ RoundTrip(d)
        \/ StartSync(d, ConvSyncs)
        \/ SyncDeletions(d, Reliable, 0)
        \/ SyncUserSettings(d, 0)
        \/ FetchUserSettings(d, 0)
        \/ SyncExercises(d, Reliable, 0)
        \/ FetchExercises(d, 0)
        \/ SyncTemplates(d, Reliable, 0)
        \/ FetchTemplates(d, 0)
        \/ SyncScheduledWorkouts(d, Reliable, 0)
        \/ FetchScheduledWorkouts(d, 0)
        \/ SyncAllPendingWorkouts(d, Reliable, 0)
        \/ CleanupLocalDuplicates(d)

SpecConv == InitConv /\ [][NextConv]_vars

\* The entry's exercise is in the collection and no exercise with a higher id
\* has the same name, compared case-insensitively
LastOfItsName(exercises, id) ==
    \E e \in exercises :
        /\ e.id = id
        /\ \A q \in exercises : toLowerCase(q.name) = toLowerCase(e.name) => q.id <= e.id

----------------------------------------------------------------------------
(* SpecExercises: two devices that add exercises of their own *)

InitExercises ==
    \E a \in {EmptyStore(1), StoreWithTemplate(1, "Push", 1)} :
        Start(a, EmptyStore(2), EmptyCloud)

NextExercises ==
    \E d \in Devices :
        \/ HandleAddExercise(d, ExerciseOps)
        \/ StartSync(d, ExerciseSyncs)
        \/ SyncDeletions(d, Reliable, 0)
        \/ SyncUserSettings(d, 0)
        \/ FetchUserSettings(d, 0)
        \/ SyncExercises(d, Reliable, 0)
        \/ FetchExercises(d, 0)
        \/ SyncTemplates(d, Reliable, 0)
        \/ FetchTemplates(d, 0)
        \/ SyncScheduledWorkouts(d, Reliable, 0)
        \/ FetchScheduledWorkouts(d, 0)
        \/ SyncAllPendingWorkouts(d, Reliable, 0)
        \/ CleanupLocalDuplicates(d)

SpecExercises == InitExercises /\ [][NextExercises]_vars

\* The remote exercises rows with exactly this name
exerciseRowsNamed(R, name) == {r \in R.exercises : r.name = name}

\* The local exercises with this name, compared case-insensitively
exercisesNamedLike(L, name) ==
    {e \in L.exercises : toLowerCase(e.name) = toLowerCase(name)}

\* The first two runs since the last mutation are runs of two different
\* devices, every remote call succeeding, the first into an empty remote store
FirstSyncThenOtherDevice ==
    /\ Len(Runs) >= 2
    /\ Runs[1].ok /\ Runs[2].ok
    /\ Runs[1].dev # Runs[2].dev
    /\ done[1].kind # "sync" => done[1].R.exercises = {}
    /\ done[1].kind = "sync" => syncs = Len(Runs)

\* C11: device A holds an exercise X and syncs it to an empty remote store: the
\* remote store holds exactly one row for X. After a second device B has then
\* run its sync, the remote store still holds exactly one row with X's name, B
\* holds exactly one exercise with X's name compared case-insensitively, and
\* that exercise has X's muscle groups.
ExerciseSyncedOnceEverywhere ==
    FirstSyncThenOtherDevice =>
        \A X \in Runs[1].D[Runs[1].dev].exercises :
            /\ Cardinality(exerciseRowsNamed(Runs[1].R, X.name)) = 1
            /\ Cardinality(exerciseRowsNamed(Runs[2].R, X.name)) = 1
            /\ Cardinality(exercisesNamedLike(Runs[2].D[Runs[2].dev], X.name)) = 1
            /\ \A e \in exercisesNamedLike(Runs[2].D[Runs[2].dev], X.name) :
                   e.muscleGroups = X.muscleGroups

\* The second device held another exercise under the local id of X: after its
\* run the row of X carries the second device's exercise instead
ExerciseRowTakenOver ==
    /\ FirstSyncThenOtherDevice
    /\ \E X \in Runs[1].D[Runs[1].dev].exercises :
           /\ \E r \in Runs[1].R.exercises :
                  r.local_id = X.id /\ r.name = X.name /\ r.muscle_group = X.muscleGroups
           /\ \E r \in Runs[2].R.exercises, e \in Runs[2].D[Runs[2].dev].exercises :
                  /\ r.local_id = X.id /\ e.id = X.id
                  /\ r.name = e.name /\ r.muscle_group = e.muscleGroups
                  /\ (e.name # X.name \/ e.muscleGroups # X.muscleGroups)

----------------------------------------------------------------------------
(* SpecFaults: runs of one device in which calls of any phase may fail *)

InitFaults ==
    Start(StoreWithScheduled(1, "Push", 1), EmptyStore(2), EmptyCloud)

NextFaults ==
    \E d \in {"A"} :
        \/ HandleSaveNewTemplate(d, FaultOps)
        \/ HandleDeleteScheduled(d, FaultOps)
        \/ StartSync(d, FaultSyncs)
        \/ SyncDeletions(d, DeletionOutcomes, FaultBudget)
        \/ SyncUserSettings(d, FaultBudget)
        \/ FetchUserSettings(d, FaultBudget)
        \/ SyncExercises(d, UpsertOutcomes, FaultBudget)
        \/ FetchExercises(d, FaultBudget)
        \/ SyncTemplates(d, UploadOutcomes, FaultBudget)
        \/ FetchTemplates(d, FaultBudget)
        \/ SyncScheduledWorkouts(d, UploadOutcomes, FaultBudget)
        \/ FetchScheduledWorkouts(d, FaultBudget)
        \/ SyncAllPendingWorkouts(d, UpsertOutcomes, FaultBudget)
        \/ CleanupLocalDuplicates(d)

SpecFaults == InitFaults /\ [][NextFaults]_vars

\* C13: fullCloudSync never rejects because of a failure inside one phase: a
\* remote call or local-store operation that returns an error or throws is
\* contained in its phase and every later phase of the run still executes, so
\* a run is over only when the local deduplication sweep, its last phase, has run.
FailureIsContained ==
    (last.phase \in Range(Phases) /\ pc[last.dev] = "idle") => last.phase = "cleanup"

\* A download whose loop body threw: the run is over and the phases after it
\* have not run
DownloadRejectedRun ==
    /\ last.phase \in {"exercisesDown", "templatesDown", "scheduledDown"}
    /\ last.res.rejected
    /\ pc[last.dev] = "idle"
    /\ done # <<>> /\ done[Len(done)].kind = "sync" /\ ~done[Len(done)].ok

\* The local table an upload phase reads, and whether the remote store holds a
\* row under the key the phase looks the record up by
uploadedTable(L, phase) ==
    CASE phase = "exercisesUp" -> L.exercises
      [] phase = "templatesUp" -> L.templates
      [] phase = "scheduledUp" -> L.scheduledWorkouts

HasRowFor(R, phase, x) ==
    CASE phase = "exercisesUp" -> \E r \in R.exercises : r.local_id = x.id
      [] phase = "templatesUp" ->
            \E r \in R.templates : r.user_id = CurrentUser /\ r.name = x.name
      [] phase = "scheduledUp" ->
            \E r \in R.scheduled_workouts :
                r.user_id = CurrentUser /\ r.date = x.date /\ r.template_name = x.templateName

\* C14: in each upload phase (syncExercises, syncTemplatesToSupabase,
\* syncScheduledWorkoutsToSupabase) a remote error or exception for one record
\* is counted in failed, that record is not marked synced, every remaining
\* record of the batch is still attempted, and synced + failed equals the
\* number of local records read at the start of the phase.
UploadCountsEveryFailure ==
    last.phase \in {"exercisesUp", "templatesUp", "scheduledUp"} =>
        LET before == uploadedTable(last.L, last.phase)
            after == uploadedTable(db[last.dev], last.phase)
        IN /\ last.res.failed = Cardinality({x \in before : last.oc[x.id] # "ok"})
           /\ last.res.synced + last.res.failed = Cardinality(before)
           /\ \A x \in before :
                  /\ (last.oc[x.id] # "ok" /\ last.phase # "exercisesUp")
                         => Rec(after, x.id).synced = x.synced
                  /\ last.oc[x.id] = "ok" => HasRowFor(cloud, last.phase, x)

\* An upload in which the write of one record failed and was counted, and a
\* record after it was uploaded all the same
UploadWentOnAfterFailure ==
    /\ last.phase \in {"exercisesUp", "templatesUp"}
    /\ last.res.failed = 1
    /\ \E x, y \in uploadedTable(last.L, last.phase) :
           /\ x.id < y.id
           /\ last.oc[x.id] = "writeErr" /\ last.oc[y.id] = "ok"
           /\ ~HasRowFor(last.R, last.phase, y) /\ HasRowFor(cloud, last.phase, y)

----------------------------------------------------------------------------
(* SpecHistory: workouts recorded, finished and uploaded on one device *)

\* The backlog not uploaded yet, or uploaded by syncAllPendingWorkouts
InitHistory ==
    \E uploaded \in BOOLEAN :
        LET L == StoreWithWorkouts(HistoryBacklog)
            S == syncAllPendingWorkouts(L, EmptyCloud, FALSE,
                                        [id \in Ids(L.exercises) |-> "ok"],
                                        [id \in Ids(L.workouts) |-> "ok"])
        IN IF uploaded THEN StartAt(S.L, EmptyStore(2), S.R, HistoryBacklog + 1)
           ELSE StartAt(L, EmptyStore(2), EmptyCloud, HistoryBacklog + 1)

NextHistory ==
    \E d \in {"A"} :
        \/ HandleStartNewWorkout(d, HistoryOps)
        \/ HandleAddExerciseToWorkout(d, HistoryOps)
        \/ HandleFinishWorkout(d, WorkoutUploadOutcomes, HistoryOps)
        \/ HandleForceSyncAll(d, HistoryOps)
        \/ StartSync(d, HistorySyncs)
        \/ SyncDeletions(d, Reliable, 0)
        \/ SyncUserSettings(d, 0)
        \/ FetchUserSettings(d, 0)
        \/ SyncExercises(d, Reliable, 0)
        \/ FetchExercises(d, 0)
        \/ SyncTemplates(d, Reliable, 0)
        \/ FetchTemplates(d, 0)
        \/ SyncScheduledWorkouts(d, Reliable, 0)
        \/ FetchScheduledWorkouts(d, 0)
        \/ SyncAllPendingWorkouts(d, Reliable, 0)
        \/ CleanupLocalDuplicates(d)

SpecHistory == InitHistory /\ [][NextHistory]_vars

\* The remote rows of the workout with this local id, and what its sets say
workoutRows(R, id) == {r \in R.workouts : r.local_id = id}

workoutSetRows(R, id) == {r \in R.workout_sets : r.workout_local_id = id}

setsContent(R, id) ==
    {[exercise_id |-> r.exercise_id, set_number |-> r.set_number] : r \in workoutSetRows(R, id)}

\* The workout was uploaded before this step
uploadedBefore(id) ==
    /\ id \in Ids(last.L.workouts)
    /\ Rec(last.L.workouts, id).synced
    /\ workoutRows(last.R, id) # {}

\* C17: uploading again a completed workout that was already uploaded
\* (syncToSupabase called a second time through syncAllPendingWorkouts(true)),
\* with unchanged local data and all remote calls succeeding, leaves the remote
\* store with exactly one workouts row for that local_id and the same collection
\* of workout_sets rows as after the first upload: no set is duplicated or
\* missing.
ReuploadLeavesSameHistory ==
    last.phase = "forceSync" =>
        \A id \in last.res.uploaded :
            uploadedBefore(id) =>
                /\ Cardinality(workoutRows(cloud, id)) = 1
                /\ workoutRows(cloud, id) = workoutRows(last.R, id)
                /\ setsContent(cloud, id) = setsContent(last.R, id)
                /\ Cardinality(workoutSetRows(cloud, id)) =
                       Cardinality(workoutSetRows(last.R, id))

\* A forced upload of a workout uploaded before: its sets were deleted and
\* inserted again, as new rows
WorkoutUploadedAgain ==
    /\ last.phase = "forceSync"
    /\ \E id \in last.res.uploaded :
           /\ uploadedBefore(id)
           /\ workoutSetRows(last.R, id) # {}
           /\ \A r \in workoutSetRows(cloud, id) : r.id \notin Ids(last.R.workout_sets)

\* The workouts this step deleted from the local store
deletedWorkouts == {w \in last.L.workouts : w.id \notin Ids(db[last.dev].workouts)}

\* C18: after a successful syncToSupabase at most 5 completed workouts remain
\* in the local store and they are the 5 with the latest endTime; every older
\* completed workout has been deleted together with all sets whose workoutId is
\* that workout (no orphan set remains), and active workouts and their sets are
\* untouched.
CleanupKeepsFiveLatest ==
    (last.phase \in {"finish", "forceSync", "history"} /\ last.res.synced >= 1) =>
        LET L == db[last.dev]
        IN /\ Cardinality(completedWorkouts(L)) <= KeepCount
           /\ deletedWorkouts # {} => Cardinality(completedWorkouts(L)) = KeepCount
           /\ \A w \in deletedWorkouts :
                  /\ w.status = "completed"
                  /\ \A k \in completedWorkouts(L) : k.endTime >= w.endTime
           /\ L.sets = {x \in last.L.sets : x.workoutId \in Ids(L.workouts)}
           /\ \A x \in L.sets : x.workoutId \in Ids(L.workouts)
           /\ \A w \in last.L.workouts :
                  (w.status = "active" /\ ~(last.phase = "finish" /\ last.res.id = w.id))
                      => w \in L.workouts

\* An upload after which the oldest finished workout and its sets were
\* deleted while a workout in progress and its set stayed
CleanupDeletedOldestOnly ==
    /\ last.phase \in {"forceSync", "history"}
    /\ last.res.synced >= 1
    /\ \E w \in deletedWorkouts : \E x \in last.L.sets : x.workoutId = w.id
    /\ \E w \in db[last.dev].workouts :
           /\ w.status = "active"
           /\ \E x \in db[last.dev].sets : x.workoutId = w.id

\* The sets this step deleted from the local store
deletedSets == {x \in last.L.sets : x.id \notin Ids(db[last.dev].sets)}

\* The workout was uploaded when this step ended: it was marked synced before
\* the step, or the step uploaded it
uploadedByNow(id) ==
    \/ \E w \in last.L.workouts : w.id = id /\ w.synced
    \/ id \in last.res.uploaded

\* C21: no completed workout, and none of its sets, is ever deleted from the
\* local store by the sync engine unless that workout has been uploaded
\* successfully (synced = true); in particular the cleanup that runs after one
\* successful upload does not delete workouts that have not been uploaded yet.
OnlyUploadedWorkoutsAreDeleted ==
    last.phase \in {"finish", "forceSync", "history"} =>
        /\ \A w \in deletedWorkouts : uploadedByNow(w.id)
        /\ \A x \in deletedSets : uploadedByNow(x.workoutId)

\* The cleanup after an upload deleted a finished workout and its set that
\* were never uploaded: the remote store has no row for them
UnuploadedWorkoutDeleted ==
    /\ last.phase \in {"finish", "forceSync", "history"}
    /\ \E w \in deletedWorkouts :
           /\ w.status = "completed"
           /\ ~uploadedByNow(w.id)
           /\ workoutRows(cloud, w.id) = {}
           /\ \E x \in deletedSets : x.workoutId = w.id

----------------------------------------------------------------------------
(* SpecDedup: deduplicateExercises on stores with exercises of the same name *)

\* A device that holds DedupExercises exercises, named alike or not, and one
\* finished workout with DedupSets sets of them
StoreWithExercises(names, refs) ==
    [EmptyStore(1) EXCEPT
        !.exercises = {[id |-> i, name |-> names[i], muscleGroups |-> "Back",
                        equipment |-> "Barbell"] : i \in DOMAIN names},
        !.next.exercises = Len(names) + 1,
        !.workouts = {[id |-> 1, name |-> "New Workout", startTime |-> 1,
                       endTime |-> 1, status |-> "completed", synced |-> FALSE]},
        !.next.workouts = 2,
        !.sets = {[id |-> i, workoutId |-> 1, exerciseId |-> refs[i], setNumber |-> i] :
                    i \in DOMAIN refs},
        !.next.sets = Len(refs) + 1]

InitDedup ==
    \E names \in [1..DedupExercises -> DedupNames], refs \in [1..DedupSets -> 1..DedupExercises] :
        StartAt(StoreWithExercises(names, refs), EmptyStore(2), EmptyCloud, 2)

\* deduplicateExercises(db) is applied to the device's store
DeduplicateExercises(d) ==
    /\ last.phase = "none"
    /\ Mutation(d, "deduplicate", <<>>, deduplicateExercises(db[d]), DedupOps)

NextDedup == \E d \in {"A"} : DeduplicateExercises(d)

SpecDedup == InitDedup /\ [][NextDedup]_vars

\* The exercises named like e once trimmed and lower-cased
sameNamed(exercises, e) ==
    {x \in exercises : normalizedName(x.name) = normalizedName(e.name)}

lowestOf(group) == CHOOSE x \in group : \A y \in group : x.id <= y.id

\* C19: deduplicateExercises: of every group of local exercises whose names
\* are equal after trimming and lower-casing only the exercise with the lowest
\* id remains; every set that referenced a removed duplicate now references the
\* kept exercise, no set is added or removed, one exercise tombstone is
\* recorded per removed duplicate, and exercises with a unique name are
\* unchanged.
DeduplicationKeepsLowestId ==
    last.phase = "deduplicate" =>
        LET before == last.L
            after == db[last.dev]
            removed == before.exercises \ after.exercises
        IN /\ after.exercises =
                  {lowestOf(sameNamed(before.exercises, e)) : e \in before.exercises}
           /\ Ids(after.sets) = Ids(before.sets)
           /\ \A x \in before.sets :
                  Rec(after.sets, x.id) =
                      [x EXCEPT !.exerciseId =
                          lowestOf(sameNamed(before.exercises,
                                             Rec(before.exercises, x.exerciseId))).id]
           /\ Cardinality(after.deletedItems) = Cardinality(removed)
           /\ \A e \in removed :
                  Cardinality({item \in after.deletedItems :
                                  /\ item.type = "exercise"
                                  /\ item.localId = e.id
                                  /\ item.name = e.name}) = 1

\* A deduplication that removed a duplicate whose name differs from the kept
\* exercise's in case or in spaces, and moved a set of it to the kept exercise
DuplicateMergedIntoLowest ==
    /\ last.phase = "deduplicate"
    /\ \E e \in last.L.exercises, x \in last.L.sets :
           /\ e \notin db[last.dev].exercises
           /\ e.name # lowestOf(sameNamed(last.L.exercises, e)).name
           /\ x.exerciseId = e.id
           /\ Rec(db[last.dev].sets, x.id).exerciseId =
                  lowestOf(sameNamed(last.L.exercises, e)).id
    /\ \E e \in last.L.exercises :
           sameNamed(last.L.exercises, e) = {e} /\ e \in db[last.dev].exercises

----------------------------------------------------------------------------
(* SpecNorm: normalizeMuscleGroups on the stored shapes of a list of names *)

\* Muscle-group names as the settings page accepts them: any text that is not
\* blank
NamePool == {<<"a">>, <<"c", Space, "a">>, <<"a", Quote>>}

\* The lists of at most n names
ListsOfNames(n) == UNION {[1..k -> NamePool] : k \in 0..n}

strings(names) == [i \in DOMAIN names |-> Str(names[i])]

\* A JSON text with each quote escaped once more
RECURSIVE escapeQuotes(_)
escapeQuotes(chars) ==
    IF chars = <<>> THEN <<>>
    ELSE (IF Head(chars) = Quote THEN <<Backslash, Quote>> ELSE <<Head(chars)>>)
            \o escapeQuotes(Tail(chars))

Shapes == {"list", "json", "jsonInList", "quoted", "escaped", "escapedInList",
           "stringifiedTwice"}

\* The value stored for the list names in the given shape, plain being the
\* names stored next to an encoded list
Stored(shape, names, plain) ==
    CASE shape = "list" -> Arr(strings(names))
      [] shape = "json" -> Str(stringifyList(names))
      [] shape = "jsonInList" -> Arr(<<Str(stringifyList(names))>> \o strings(plain))
      [] shape = "quoted" -> Str(<<Quote>> \o stringifyList(names) \o <<Quote>>)
      [] shape = "escaped" -> Str(escapeQuotes(stringifyList(names)))
      [] shape = "escapedInList" ->
            Arr(<<Str(escapeQuotes(stringifyList(names)))>> \o strings(plain))
      [] shape = "stringifiedTwice" -> Str(stringifyString(stringifyList(names)))

MissingValues == {Undefined, Null, Str(<<>>), Arr(<<>>)}

\* The store of a device whose exercise 1 holds the value as its muscle groups
StoreWithMuscleGroups(val) ==
    [EmptyStore(1) EXCEPT
        !.exercises = {IF e.id = 1 THEN [e EXCEPT !.muscleGroups = val] ELSE e : e \in @}]

\* What is known of the stored value: the names it was made of and its shape
Made(shape, names, plain) == [shape |-> shape, names |-> names, plain |-> plain]

StartNorm(val, made) ==
    /\ db = [d \in Devices |-> IF d = "A" THEN StoreWithMuscleGroups(val) ELSE EmptyStore(2)]
    /\ cloud = EmptyCloud
    /\ now = 1
    /\ pc = [d \in Devices |-> "idle"]
    /\ run = [d \in Devices |-> TRUE]
    /\ held = [d \in Devices |-> NothingHeld]
    /\ last = [NoStep EXCEPT !.phase = "stored", !.oc = made]
    /\ done = <<>>
    /\ ops = 0
    /\ faults = 0
    /\ syncs = 0

InitNorm ==
    \/ \E shape \in Shapes, names \in ListsOfNames(MaxNames), plain \in ListsOfNames(MaxPlain) :
          /\ shape \notin {"jsonInList", "escapedInList"} => plain = <<>>
          /\ StartNorm(Stored(shape, names, plain), Made(shape, names, plain))
    \/ \E val \in MissingValues : StartNorm(val, Made("missing", <<>>, <<>>))

\* normalizeMuscleGroups(ex.muscleGroups) is applied to the exercise's value
NormalizeMuscleGroups(d) ==
    /\ last.phase = "stored"
    /\ last' = [dev |-> d, phase |-> "normalize", L |-> db[d], R |-> cloud,
                res |-> normalizeMuscleGroups(Rec(db[d].exercises, 1).muscleGroups),
                oc |-> last.oc]
    /\ UNCHANGED <<db, cloud, now, pc, run, held, done, ops, faults, syncs>>

NextNorm == \E d \in {"A"} : NormalizeMuscleGroups(d)

SpecNorm == InitNorm /\ [][NextNorm]_vars

\* The names themselves, duplicates removed, or ['Other'] when there is none
namesThemselves(names) ==
    IF names = <<>> THEN <<Other>> ELSE withoutDuplicates(strings(names))

\* No item of the result is the JSON encoding of a list
NoEncodedItem(result) ==
    \A i \in DOMAIN result :
        /\ result[i].t = "string"
        /\ ~looksLikeArray(trimChars(result[i].s))

\* C20: normalizeMuscleGroups returns the flat list of muscle-group names for
\* every malformed stored shape: for a clean list L of names, the inputs L, the
\* JSON-encoded string of L, a list containing the JSON-encoded string of L
\* (possibly next to plain names) and a quoted or escaped JSON encoding of L
\* all normalize to the names themselves with duplicates removed, never to a
\* list that contains a JSON-encoded string; it returns ['Other'] for a missing
\* or empty value.
NormalizeReturnsTheNames ==
    last.phase = "normalize" =>
        /\ last.res = namesThemselves(last.oc.names \o last.oc.plain)
        /\ NoEncodedItem(last.res)

\* A clean list stored as a list, one of whose names ends with a double quote:
\* the name comes back without the quote
QuoteStrippedFromName ==
    /\ last.phase = "normalize"
    /\ last.oc.shape = "list"
    /\ \E i \in DOMAIN last.oc.names :
           /\ last.oc.names[i][Len(last.oc.names[i])] = Quote
           /\ Str(last.oc.names[i]) \notin Range(last.res)
           /\ Str(stripQuotes(last.oc.names[i])) \in Range(last.res)

\* The names hold no double quote
QuoteFree(names) == \A i \in DOMAIN names : Quote \notin Range(names[i])

\* For lists of names without a double quote every stored shape normalizes to
\* the names themselves, duplicates removed
NormalizeReturnsQuoteFreeNames ==
    (last.phase = "normalize" /\ QuoteFree(last.oc.names \o last.oc.plain)) =>
        /\ last.res = namesThemselves(last.oc.names \o last.oc.plain)
        /\ NoEncodedItem(last.res)

----------------------------------------------------------------------------
(* SpecSettings: overlapping runs of two devices *)

InitSettings == Start(EmptyStore(1), EmptyStore(2), EmptyCloud)

NextSettings ==
    \E d \in Devices :
        \/ HandleTimeChange(d, SettingsOps)
        \/ StartOverlappingSync(d, SettingsSyncs)
        \/ SyncDeletions(d, Reliable, 0)
        \/ SelectUserSettings(d)
        \/ WriteUserSettings(d)
        \/ FetchUserSettings(d, 0)
        \/ SyncExercises(d, Reliable, 0)
        \/ FetchExercises(d, 0)
        \/ SyncTemplates(d, Reliable, 0)
        \/ FetchTemplates(d, 0)
        \/ SyncScheduledWorkouts(d, Reliable, 0)
        \/ FetchScheduledWorkouts(d, 0)
        \/ SyncAllPendingWorkouts(d, Reliable, 0)
        \/ CleanupLocalDuplicates(d)

SpecSettings == InitSettings /\ [][NextSettings]_vars

\* C16: after any sequence of fullCloudSync runs for one user, including runs
\* on several devices and overlapping runs, the remote user_settings table
\* holds at most one row for that user, and fetchUserSettingsFromSupabase can
\* still read it.
SettingsRowIsSingleton ==
    (AllIdle /\ syncs > 0) =>
        /\ Cardinality(userSettingsRows(cloud)) <= 1
        /\ settingsReadable(cloud)

\* Two overlapping runs have each found no row and each inserted one; a later
\* run's download cannot read the settings
SettingsInsertedTwice ==
    /\ AllIdle
    /\ Cardinality(userSettingsRows(cloud)) >= 2
    /\ last.phase = "cleanup"
    /\ ~settingsReadable(cloud)

----------------------------------------------------------------------------
(* The remote-deletion pass of the downloads *)

\* The natural keys of the rows a download fetched
fetchedTemplateKeys(R) == {toLowerCase(r.name) : r \in fetchedTemplates(R)}

fetchedScheduledKeys(R) ==
    {dateNameKey(r.date, r.template_name) : r \in fetchedScheduledWorkouts(R)}

\* The local records the step deleted
deletedTemplates == {t \in last.L.templates : t.id \notin Ids(db[last.dev].templates)}

deletedScheduled ==
    {w \in last.L.scheduledWorkouts : w.id \notin Ids(db[last.dev].scheduledWorkouts)}

\* C22: the remote-deletion pass of fetchTemplatesFromSupabase and
\* fetchScheduledWorkoutsFromSupabase deletes a local record if and only if it
\* was marked synced and its natural key (case-insensitive name, or date +
\* templateName) is absent from the just-fetched remote set: it never deletes a
\* local record whose natural key is present remotely, and it does delete
\* synced records when the fetched remote set is empty.
RemoteDeletionGoesByNaturalKey ==
    /\ (last.phase = "templatesDown" /\ last.res.ok) =>
           \A t \in last.L.templates :
               t \in deletedTemplates <=>
                   (t.synced /\ templateKey(t) \notin fetchedTemplateKeys(last.R))
    /\ (last.phase = "scheduledDown" /\ last.res.ok) =>
           \A w \in last.L.scheduledWorkouts :
               w \in deletedScheduled <=>
                   (w.synced /\ scheduledKey(w) \notin fetchedScheduledKeys(last.R))

\* A download deleted a synced template although a fetched row has its name
TemplateDeletedThoughNamePresent ==
    /\ last.phase = "templatesDown" /\ last.res.ok
    /\ \E t \in deletedTemplates :
           /\ t.synced
           /\ templateKey(t) \in fetchedTemplateKeys(last.R)
           /\ t.id \notin {r.local_id : r \in fetchedTemplates(last.R)}

----------------------------------------------------------------------------
(* SpecShared: two devices that each recorded a workout of an exercise of   *)
(* their own, uploading to the same remote tables                           *)

\* A device with one exercise of its own, which gets the first id after the
\* seeded ones, and one finished workout with one set of it, not uploaded yet.
\* id is the workout's id: ids are not reused, so after a discarded workout it
\* is not 1
StoreWithOwnWorkout(name, id, t) ==
    [EmptyStore(1) EXCEPT
        !.exercises = @ \cup {[id |-> 3, name |-> name, muscleGroups |-> "Back",
                               equipment |-> "Barbell"]},
        !.next.exercises = 4,
        !.workouts = {[id |-> id, name |-> "New Workout", startTime |-> t,
                       endTime |-> t, status |-> "completed", synced |-> FALSE]},
        !.next.workouts = id + 1,
        !.sets = {[id |-> id, workoutId |-> id, exerciseId |-> 3, setNumber |-> 1]},
        !.next.sets = id + 1]

\* Device A's workout of "Row" has id 1 and started at 1; device B's workout of
\* "Curl" started at 2 and has the same id or the next
InitShared ==
    \E id \in 1..2 :
        StartAt(StoreWithOwnWorkout("Row", 1, 1), StoreWithOwnWorkout("Curl", id, 2),
                EmptyCloud, 3)

NextShared ==
    \E d \in Devices :
        \/ StartSync(d, SharedSyncs)
        \/ SyncDeletions(d, Reliable, 0)
        \/ SyncUserSettings(d, 0)
        \/ FetchUserSettings(d, 0)
        \/ SyncExercises(d, Reliable, 0)
        \/ FetchExercises(d, 0)
        \/ SyncTemplates(d, Reliable, 0)
        \/ FetchTemplates(d, 0)
        \/ SyncScheduledWorkouts(d, Reliable, 0)
        \/ FetchScheduledWorkouts(d, 0)
        \/ SyncAllPendingWorkouts(d, Reliable, 0)
        \/ CleanupLocalDuplicates(d)

SpecShared == InitShared /\ [][NextShared]_vars

\* The local workouts a remote workouts row stands for: those with its local
\* id that started when the row says
recordedAs(row) ==
    {<<d, w>> \in Devices \X UNION {db[d].workouts : d \in Devices} :
        w \in db[d].workouts /\ w.id = row.local_id /\ w.startTime = row.start_time}

\* The names of the exercises the remote set row was logged against: the
\* exercise of the local set with its number, in the workout of its workouts row
loggedAgainst(r) ==
    {Rec(db[p[1]].exercises, x.exerciseId).name :
        <<p, x>> \in {<<q, y>> \in
                        (UNION {recordedAs(wr) : wr \in workoutRows(cloud, r.workout_local_id)})
                            \X UNION {db[d].sets : d \in Devices} :
                        /\ y \in db[q[1]].sets
                        /\ y.workoutId = q[2].id
                        /\ y.setNumber = r.set_number}}

\* The names of the remote exercises rows the set row references
referencedNames(r) == {e.name : e \in {x \in cloud.exercises : x.id = r.exercise_id}}

\* C23: after any sequence of syncs by two devices whose local exercise ids
\* overlap, every remote workout_sets row still references a remote exercises
\* row whose name is the name of the exercise the set was logged against: an
\* exercise upload from one device never renames or replaces the remote
\* exercise row that another device's uploaded sets rely on.
UploadedSetsKeepTheirExercise ==
    (AllIdle /\ syncs > 0) =>
        \A r \in cloud.workout_sets :
            /\ loggedAgainst(r) # {}
            /\ referencedNames(r) = loggedAgainst(r)

\* Both devices have synced, their workouts have different ids, and the set
\* row of device A's workout of "Row" references a row named "Curl"
SetOfRowReferencesCurl ==
    /\ AllIdle /\ syncs >= 2
    /\ \E r \in cloud.workout_sets :
           /\ r.workout_local_id = 1
           /\ \A w \in db["B"].workouts : w.id # 1
           /\ loggedAgainst(r) = {"Row"}
           /\ referencedNames(r) = {"Curl"}

\* C24: syncToSupabase for a workout on device B never deletes, replaces or
\* modifies the remote workouts row and workout_sets rows that device A
\* uploaded for a different workout, even when the two workouts have the same
\* local id on their respective devices.
UploadLeavesOtherWorkoutsAlone ==
    last.phase = "history" =>
        \A wr \in last.R.workouts :
            (\A w \in last.L.workouts : w.startTime # wr.start_time) =>
                /\ wr \in cloud.workouts
                /\ workoutSetRows(cloud, wr.local_id) = workoutSetRows(last.R, wr.local_id)

\* Device B uploaded its workout 1 and the row and the set of device A's
\* workout 1 are no longer in the remote store
OtherWorkoutReplaced ==
    /\ last.phase = "history" /\ last.dev = "B" /\ last.res.uploaded = {1}
    /\ \E wr \in last.R.workouts :
           /\ wr.start_time = 1 /\ wr.local_id = 1
           /\ wr \notin cloud.workouts
           /\ workoutSetRows(last.R, 1) # {}
           /\ workoutSetRows(cloud, 1) \cap workoutSetRows(last.R, 1) = {}

----------------------------------------------------------------------------
(* Deletions and the downloads of the same run *)

\* The local records the step inserted
insertedTemplates == {t \in db[last.dev].templates : t.id \notin Ids(last.L.templates)}

insertedScheduled ==
    {w \in db[last.dev].scheduledWorkouts : w.id \notin Ids(last.L.scheduledWorkouts)}

insertedExercises == {e \in db[last.dev].exercises : e.id \notin Ids(last.L.exercises)}

\* The step is a download of the first run of the device after it deleted a
\* record: the flush of this run has returned, every remote call succeeding
DownloadAfterDeletion(kind, phase) ==
    /\ Len(done) = 1
    /\ done[1].kind = kind
    /\ last.dev = done[1].dev
    /\ last.phase = phase
    /\ last.res.ok

\* C25: once a template, scheduled workout or exercise has been deleted locally
\* and the tombstone flush at the start of a fullCloudSync has run with its
\* remote calls succeeding, the download phases of that same fullCloudSync do
\* not insert a local record with the deleted record's natural key, whatever
\* other devices uploaded before.
DeletedRecordIsNotDownloaded ==
    /\ DownloadAfterDeletion("deleteTemplate", "templatesDown") =>
           \A t \in insertedTemplates : templateKey(t) # templateKey(done[1].rec)
    /\ DownloadAfterDeletion("deleteScheduled", "scheduledDown") =>
           \A w \in insertedScheduled : scheduledKey(w) # scheduledKey(done[1].rec)
    /\ DownloadAfterDeletion("deleteExercise", "exercisesDown") =>
           \A e \in insertedExercises : toLowerCase(e.name) # toLowerCase(done[1].rec.name)

\* The flush cleared the tombstone of a scheduled workout whose row another
\* device had taken over, and the download of the same run inserted the
\* workout again
DeletedScheduledDownloadedAgain ==
    /\ DownloadAfterDeletion("deleteScheduled", "scheduledDown")
    /\ db[last.dev].deletedItems = {}
    /\ \E w \in insertedScheduled : scheduledKey(w) = scheduledKey(done[1].rec)
    /\ \E r \in last.R.scheduled_workouts :
           /\ dateNameKey(r.date, r.template_name) = scheduledKey(done[1].rec)
           /\ r.local_id # done[1].rec.id

\* The natural key of a tombstone
tombstoneKey(item) ==
    IF item.type = "scheduled_workout" THEN dateNameKey(item.date, item.name)
    ELSE toLowerCase(item.name)

\* The tombstones of the given type that the flush of the run left pending
pendingTombstones(type) ==
    {item \in db[last.dev].deletedItems \cap last.L.deletedItems : item.type = type}

\* C26: while a tombstone is still pending because its remote deletion failed,
\* the download phases of fullCloudSync do not re-insert a local record with
\* that tombstone's natural key (exercise name, or scheduled date +
\* templateName): the local deletion stays in effect until the tombstone has
\* been flushed.
PendingTombstoneIsNotDownloaded ==
    /\ (last.phase = "exercisesDown" /\ last.res.ok) =>
           \A item \in pendingTombstones("exercise") :
               \A e \in insertedExercises : toLowerCase(e.name) # tombstoneKey(item)
    /\ (last.phase = "scheduledDown" /\ last.res.ok) =>
           \A item \in pendingTombstones("scheduled_workout") :
               \A w \in insertedScheduled : scheduledKey(w) # tombstoneKey(item)

\* The remote deletion of a scheduled workout failed in the flush, and the
\* download of the same run inserted the workout again next to its tombstone
PendingDeletionDownloadedAgain ==
    /\ last.phase = "scheduledDown" /\ last.res.ok
    /\ faults > 0
    /\ \E item \in pendingTombstones("scheduled_workout") :
           \E w \in insertedScheduled : scheduledKey(w) = tombstoneKey(item)

----------------------------------------------------------------------------
(* Templates: the natural key of the upload *)

\* The remote rows of the current user named like the template, letter case
\* disregarded
rowsNamedLike(R, t) ==
    {r \in R.templates : r.user_id = CurrentUser /\ toLowerCase(r.name) = templateKey(t)}

\* C27: after syncTemplatesToSupabase completes with no failures, for every
\* local template the remote store holds exactly one templates row for the
\* current user whose name equals the local name case-insensitively: a remote
\* row whose name differs from the local name only in letter case is matched
\* and updated, not duplicated by an insert.
UploadMatchesNameInAnyCase ==
    (last.phase = "templatesUp" /\ last.res.failed = 0) =>
        \A t \in db[last.dev].templates : Cardinality(rowsNamedLike(cloud, t)) = 1

\* The device's only template of its name was uploaded while a row of another
\* device had the name in another letter case: a second row was inserted
CaseVariantInserted ==
    /\ last.phase = "templatesUp" /\ last.res.failed = 0
    /\ \E t \in db[last.dev].templates :
           /\ \A x \in db[last.dev].templates : templateKey(x) = templateKey(t) => x = t
           /\ rowsNamedLike(last.R, t) # {}
           /\ \A r \in rowsNamedLike(last.R, t) : r.name # t.name /\ r \in cloud.templates
           /\ \E r \in rowsNamedLike(cloud, t) : r.name = t.name /\ r.local_id = t.id

----------------------------------------------------------------------------
(* SpecEdits: a scheduled workout edited between two runs *)

\* ScheduledWorkoutDetail.addSet: one more set for the entry exIdx of the
\* scheduled workout's exercises; nothing else of the record is written
addSet(L, id, exIdx) ==
    [L EXCEPT !.scheduledWorkouts =
        {IF w.id = id THEN [w EXCEPT !.exercises[exIdx].sets = "4x10"] ELSE w : w \in @}]

HandleAddSet(d, maxOps) ==
    \E w \in db[d].scheduledWorkouts, exIdx \in 1..MaxLen :
        /\ exIdx \in DOMAIN w.exercises
        /\ w.exercises[exIdx].sets = "3x10"
        /\ Mutation(d, "addSet", w, addSet(db[d], w.id, exIdx), maxOps)

\* Device A holds a scheduled workout of "Push"; device B holds none, or one of
\* its own for the same day, named "push"
InitEdits ==
    \E b \in {EmptyStore(2), StoreWithScheduled(2, "push", 2)} :
        Start(StoreWithScheduled(1, "Push", 1), b, EmptyCloud)

NextEdits ==
    \E d \in Devices :
        \/ HandleAddSet(d, EditOps)
        \/ StartSync(d, EditSyncs)
        \/ SyncDeletions(d, Reliable, 0)
        \/ SyncUserSettings(d, 0)
        \/ FetchUserSettings(d, 0)
        \/ SyncExercises(d, Reliable, 0)
        \/ FetchExercises(d, 0)
        \/ SyncTemplates(d, Reliable, 0)
        \/ FetchTemplates(d, 0)
        \/ SyncScheduledWorkouts(d, UpsertOutcomes, EditFaults)
        \/ FetchScheduledWorkouts(d, 0)
        \/ SyncAllPendingWorkouts(d, Reliable, 0)
        \/ CleanupLocalDuplicates(d)

SpecEdits == InitEdits /\ [][NextEdits]_vars

\* The local scheduled workout the user edited last, before and after the step
editedBefore == {w \in last.L.scheduledWorkouts : w.id = done[1].rec.id}

editedAfter == {w \in db[last.dev].scheduledWorkouts : w.id = done[1].rec.id}

\* The fetched rows matched to the local record that were written after the
\* edit: rows that the remote store did not hold as they are when the user
\* edited the record
newerRows(w) ==
    {r \in fetchedScheduledWorkouts(last.R) :
        /\ dateNameKey(r.date, r.template_name) = scheduledKey(w)
        /\ r \notin done[1].R.scheduled_workouts}

\* The record's exercises, notes and completed are those of the row
overwrittenFrom(w, r) ==
    /\ w.exercises = convertExercisesFromCloud(last.L.exercises, r.exercises)
    /\ w.notes = r.notes
    /\ w.completed = r.completed

\* C28: fetchScheduledWorkoutsFromSupabase overwrites the exercises, notes and
\* completed fields of a local scheduled workout matched by (date,
\* case-insensitive templateName) only when the remote record's timestamp is
\* strictly newer than the local one; otherwise, including on a tie, the local
\* record is left unchanged. Checked for the record the user edited last, in
\* the device's first run after the edit: the download leaves it as it is, or
\* gives it the fields of a row written after the edit.
DownloadOverwritesOnlyFromNewer ==
    (/\ Len(done) = 1 /\ done[1].kind = "addSet"
     /\ last.dev = done[1].dev
     /\ last.phase = "scheduledDown" /\ last.res.ok) =>
        \A w \in editedAfter :
            \/ w \in editedBefore
            \/ \E r \in newerRows(w) : overwrittenFrom(w, r)

\* The upload of the edited record failed, and the download of the same run
\* replaced the edited exercises by those of the row uploaded before the edit
EditLostToOlderRow ==
    /\ Len(done) = 1 /\ done[1].kind = "addSet"
    /\ last.dev = done[1].dev
    /\ last.phase = "scheduledDown" /\ last.res.ok
    /\ \E w \in editedAfter, b \in editedBefore :
           /\ newerRows(w) = {}
           /\ \E i \in DOMAIN b.exercises : b.exercises[i].sets = "4x10"
           /\ \A i \in DOMAIN w.exercises : w.exercises[i].sets = "3x10"

----------------------------------------------------------------------------
(* SpecOverlap: a run alone after two runs of one device that overlapped *)

\* Every remote call of a loop over the records returns as given
AllCalls(T, oc) == [id \in Ids(T) |-> oc]

\* The upload phases of two runs of one device that overlap on an empty remote
\* store: both runs issue the lookup of a record before either has inserted its
\* row, so the second run's lookup returns no row as well and it takes the
\* insert branch (the branch of a lookup without data)
overlappedUploads(L, R, t_now) ==
    LET T1 == syncTemplatesToSupabase(L, R, t_now, <<>>, AllCalls(L.templates, "ok"))
        T2 == syncTemplatesToSupabase(T1.L, T1.R, t_now, <<>>,
                                      AllCalls(L.templates, "selectErr"))
        W1 == syncScheduledWorkoutsToSupabase(T2.L, T2.R, <<>>,
                                              AllCalls(L.scheduledWorkouts, "ok"))
        W2 == syncScheduledWorkoutsToSupabase(W1.L, W1.R, <<>>,
                                              AllCalls(L.scheduledWorkouts, "selectErr"))
    IN [L |-> W2.L, R |-> W2.R]

\* The download phases of two runs of one device that overlap: the second run
\* read the local tables before the first run added its records, and goes
\* through the fetched rows with what it read
overlappedDownloads(L, R) ==
    LET T1 == fetchTemplatesFromSupabase(L, R, <<>>, "ok", 0)
        T2 == downloadTemplatesLoop(templatesData(R, <<>>), L.templates, T1)
        gone == templateRemoteDeletions(templatesData(R, <<>>), L.templates)
        T3 == [T2 EXCEPT !.templates = {t \in @ : t.id \notin gone}]
        W1 == fetchScheduledWorkoutsFromSupabase(T3, R, <<>>, "ok", 0)
        W2 == downloadScheduledLoop(scheduledData(R, <<>>), L.scheduledWorkouts, W1)
        away == scheduledRemoteDeletions(scheduledData(R, <<>>), L.scheduledWorkouts)
    IN [W2 EXCEPT !.scheduledWorkouts = {w \in @ : w.id \notin away}]

\* The download phases and the sweep of a run that ends
restOfRun(L, R) ==
    cleanupLocalDuplicates(
        fetchScheduledWorkoutsFromSupabase(
            fetchTemplatesFromSupabase(L, R, <<>>, "ok", 0), R, <<>>, "ok", 0))

\* Device A after two of its runs overlapped. Either it held a template and a
\* scheduled workout and both runs inserted their rows (the second run then
\* ended there, or went on to its downloads and its sweep), or it held none,
\* the rows are those device B uploaded, both runs added them and the second
\* run ended before its sweep
InitOverlap ==
    \/ \E swept \in BOOLEAN :
          LET S == overlappedUploads(StoreWithScheduled(1, "Push", 1), EmptyCloud, 1)
          IN StartAt(IF swept THEN restOfRun(S.L, S.R) ELSE S.L, EmptyStore(2), S.R, 2)
    \/ \E first \in 1..3 :
          LET B == StoreWithScheduled(first, "Push", 2)
              T == syncTemplatesToSupabase(B, EmptyCloud, 1, <<>>, AllCalls(B.templates, "ok"))
              W == syncScheduledWorkoutsToSupabase(T.L, T.R, <<>>,
                                                   AllCalls(B.scheduledWorkouts, "ok"))
          IN StartAt(overlappedDownloads(EmptyStore(1), W.R), W.L, W.R, 2)

NextOverlap ==
    \E d \in {"A"} :
        \/ StartSync(d, OverlapSyncs)
        \/ SyncDeletions(d, Reliable, 0)
        \/ SyncUserSettings(d, 0)
        \/ FetchUserSettings(d, 0)
        \/ SyncExercises(d, Reliable, 0)
        \/ FetchExercises(d, 0)
        \/ SyncTemplates(d, Reliable, 0)
        \/ FetchTemplates(d, 0)
        \/ SyncScheduledWorkouts(d, Reliable, 0)
        \/ FetchScheduledWorkouts(d, 0)
        \/ SyncAllPendingWorkouts(d, Reliable, 0)
        \/ CleanupLocalDuplicates(d)

SpecOverlap == InitOverlap /\ [][NextOverlap]_vars

\* The natural keys of the templates and scheduled workouts of L and R
templateKeys(L, R) ==
    {templateKey(t) : t \in L.templates} \cup fetchedTemplateKeys(R)

scheduledKeys(L, R) ==
    {scheduledKey(w) : w \in L.scheduledWorkouts} \cup fetchedScheduledKeys(R)

\* Exactly one remote row and exactly one local record for every natural key
OneOfEach(L, R) ==
    /\ \A k \in templateKeys(L, R) :
           /\ Cardinality({t \in L.templates : templateKey(t) = k}) = 1
           /\ Cardinality({r \in fetchedTemplates(R) : toLowerCase(r.name) = k}) = 1
    /\ \A k \in scheduledKeys(L, R) :
           /\ Cardinality({w \in L.scheduledWorkouts : scheduledKey(w) = k}) = 1
           /\ Cardinality({r \in fetchedScheduledWorkouts(R) :
                               dateNameKey(r.date, r.template_name) = k}) = 1

\* C29: if two fullCloudSync runs overlap on one device and leave duplicate
\* remote rows or duplicate local records for one template or scheduled-workout
\* natural key, then after the next fullCloudSync that runs alone with all
\* remote calls succeeding, exactly one remote row and exactly one local record
\* remain for that natural key.
RunAloneCollapsesDuplicates ==
    \A i \in DOMAIN done :
        (done[i].kind = "sync" /\ done[i].ok) => OneOfEach(done[i].D["A"], done[i].R)

\* The first run alone has ended without a failure: the duplicate rows or the
\* duplicate records the overlapping runs left are gone, one of each remains
DuplicatesCollapsed ==
    /\ Len(done) = 1 /\ done[1].kind = "sync" /\ done[1].ok
    /\ pc["A"] = "idle"
    /\ templateKeys(db["A"], cloud) # {} /\ scheduledKeys(db["A"], cloud) # {}
    /\ OneOfEach(db["A"], cloud)

----------------------------------------------------------------------------
(* SpecAuth: the two sync triggers of AuthProvider on one device *)

\* The callbacks of AuthProvider that call performSync: the then-callback of
\* getSession() and the onAuthStateChange listener at a SIGNED_IN event
Triggers == {"getSession", "SIGNED_IN"}

\* A callback that has not been called yet
Waiting == "waiting"

\* The runs of fullCloudSync that have started and not returned
inFlight == {t \in Triggers : pc[t] \in Range(Phases)}

\* One phase of fullCloudSync on the local store L and the remote store R, every
\* remote call succeeding
reliablePhase(p, L, R, t_now) ==
    CASE p = "deletions" ->
            LET S == syncDeletionsToSupabase(L, R, AllCalls(L.deletedItems, "ok"))
            IN [L |-> S.L, R |-> S.R]
      [] p = "settingsUp" ->
            [L |-> L, R |-> syncUserSettingsToSupabase(L, R, t_now, "ok")]
      [] p = "settingsDown" ->
            [L |-> fetchUserSettingsFromSupabase(L, R, TRUE), R |-> R]
      [] p = "exercisesUp" ->
            LET S == syncExercises(L, R, AllCalls(L.exercises, "ok"))
            IN [L |-> S.L, R |-> S.R]
      [] p = "exercisesDown" ->
            [L |-> fetchExercisesFromSupabase(L, R, <<>>, "ok", 0), R |-> R]
      [] p = "templatesUp" ->
            LET S == syncTemplatesToSupabase(L, R, t_now, <<>>, AllCalls(L.templates, "ok"))
            IN [L |-> S.L, R |-> S.R]
      [] p = "templatesDown" ->
            [L |-> fetchTemplatesFromSupabase(L, R, <<>>, "ok", 0), R |-> R]
      [] p = "scheduledUp" ->
            LET S == syncScheduledWorkoutsToSupabase(L, R, <<>>,
                                                     AllCalls(L.scheduledWorkouts, "ok"))
            IN [L |-> S.L, R |-> S.R]
      [] p = "scheduledDown" ->
            [L |-> fetchScheduledWorkoutsFromSupabase(L, R, <<>>, "ok", 0), R |-> R]
      [] p = "history" ->
            LET S == syncAllPendingWorkouts(L, R, FALSE, AllCalls(L.exercises, "ok"),
                                            AllCalls(workoutsToSync(L, FALSE), "ok"))
            IN [L |-> S.L, R |-> S.R]
      [] OTHER ->
            [L |-> cleanupLocalDuplicates(L), R |-> R]

\* performSync: setSyncing(true), then fullCloudSync is called. The function
\* reads neither the syncing flag nor anything else that tells whether an
\* earlier call has returned
performSync(t) ==
    /\ syncs < AuthSyncs
    /\ pc' = [pc EXCEPT ![t] = Phases[1]]
    /\ now' = Tick
    /\ syncs' = syncs + 1
    /\ last' = [NoStep EXCEPT !.dev = "A", !.phase = "start", !.L = db["A"], !.R = cloud]
    /\ UNCHANGED <<db, cloud, run, held, done, ops, faults>>

\* getSession().then: the stored session has a user, performSync is called
SessionRestored ==
    /\ pc["getSession"] = Waiting
    /\ performSync("getSession")

\* onAuthStateChange: a SIGNED_IN event with a user, performSync is called. The
\* listener stays subscribed and is called at every such event
SignedIn ==
    /\ pc["SIGNED_IN"] \in {Waiting, "idle"}
    /\ performSync("SIGNED_IN")

\* The run started by the callback t goes through its next phase on the local
\* store of the device; after the last one performSync returns
FullCloudSyncStep(t) ==
    /\ t \in inFlight
    /\ LET S == reliablePhase(pc[t], db["A"], cloud, now)
       IN /\ db' = [db EXCEPT !["A"] = S.L]
          /\ cloud' = S.R
          /\ done' = IF NextPhase(pc[t]) = "idle"
                     THEN Append(done, Event("A", "sync", TRUE, <<>>,
                                             [db EXCEPT !["A"] = S.L], S.R))
                     ELSE done
    /\ last' = [dev |-> "A", phase |-> pc[t], L |-> db["A"], R |-> cloud,
                res |-> <<>>, oc |-> t]
    /\ pc' = [pc EXCEPT ![t] = NextPhase(@)]
    /\ UNCHANGED <<now, run, held, ops, faults, syncs>>

\* The app starts on device A with a stored session: neither callback has been
\* called
InitAuth ==
    \E a \in {StoreWithTemplate(1, "Push", 1), StoreWithScheduled(1, "Push", 1)} :
        /\ db = [d \in Devices |-> IF d = "A" THEN a ELSE EmptyStore(2)]
        /\ cloud = EmptyCloud
        /\ now = 1
        /\ pc = [t \in Triggers |-> Waiting]
        /\ run = [d \in Devices |-> TRUE]
        /\ held = [d \in Devices |-> NothingHeld]
        /\ last = NoStep
        /\ done = <<>>
        /\ ops = 0
        /\ faults = 0
        /\ syncs = 0

NextAuth ==
    \/ SessionRestored
    \/ SignedIn
    \/ \E t \in Triggers : FullCloudSyncStep(t)

SpecAuth == InitAuth /\ [][NextAuth]_vars

\* C30: on one device at most one fullCloudSync is in flight at any time: the
\* sync triggers in AuthProvider (session restore on app start and the
\* SIGNED_IN auth event) never start a fullCloudSync while a previous one has
\* not finished.
AtMostOneSyncInFlight ==
    Cardinality(inFlight) <= 1

\* The SIGNED_IN event has started a run while the run started at the session
\* restore is between two of its phases
TwoSyncsInFlight ==
    /\ last.phase = "start"
    /\ inFlight = Triggers
    /\ \E t \in Triggers : pc[t] # Phases[1]

----------------------------------------------------------------------------
(* SpecCrash: a run that stops after one of its writes, and the run after it *)

\* The stores as a run leaves them
Cut(L, R) == [L |-> L, R |-> R]

\* fullCloudSync from the stores S, every remote call succeeding: the phases ps
\* one after the other
RECURSIVE runPhases(_, _, _)
runPhases(ps, S, t_now) ==
    IF ps = <<>> THEN S
    ELSE runPhases(Tail(ps), reliablePhase(Head(ps), S.L, S.R, t_now), t_now)

\* The stores when the process stops in a loop that deals with its records one
\* after the other, each by its remote calls and then by a write to the local
\* store: after[k + 1] holds the stores after k records; the process stops
\* between two records, or between a record's remote calls and its local write
stoppedInLoop(after) ==
    {Cut(after[k].L, after[k].R) : k \in DOMAIN after}
        \cup {Cut(after[k].L, after[k + 1].R) : k \in 1..(Len(after) - 1)}

\* syncDeletionsToSupabase: the remote delete, then the tombstone's removal
stoppedInDeletions(L, R) ==
    LET ids == SortedSeq(Ids(L.deletedItems))
    IN stoppedInLoop([k \in 1..(Len(ids) + 1) |->
            syncDeletionsLoop(SubSeq(ids, 1, k - 1), L.deletedItems,
                              [L |-> L, R |-> R, synced |-> 0, failed |-> 0,
                               cleared |-> {}, confirmed |-> {}],
                              AllCalls(L.deletedItems, "ok"))])

\* syncExercises: one upsert per exercise
stoppedInExercises(L, R) ==
    LET ids == SortedSeq(Ids(L.exercises))
    IN stoppedInLoop([k \in 1..(Len(ids) + 1) |->
            syncExercisesLoop(SubSeq(ids, 1, k - 1), L.exercises,
                              [L |-> L, R |-> R, synced |-> 0, failed |-> 0],
                              AllCalls(L.exercises, "ok"))])

\* syncTemplatesToSupabase: the update or insert, the delete of the duplicate
\* rows, then the local template is marked synced. With stopped the process
\* stops in the iteration of that template before the delete of the duplicates
templatesAfter(L, R, t_now, k, stopped) ==
    LET ids == SortedSeq(Ids(L.templates))
    IN syncTemplatesLoop(SubSeq(ids, 1, k), L.templates,
                         [L |-> L, R |-> R, synced |-> 0, failed |-> 0], t_now, <<>>,
                         [id \in Ids(L.templates) |->
                             IF id = stopped THEN "dedupErr" ELSE "ok"])

stoppedInTemplates(L, R, t_now) ==
    LET ids == SortedSeq(Ids(L.templates))
    IN stoppedInLoop([k \in 1..(Len(ids) + 1) |-> templatesAfter(L, R, t_now, k - 1, 0)])
         \cup {Cut(templatesAfter(L, R, t_now, k - 1, 0).L,
                   templatesAfter(L, R, t_now, k, ids[k]).R) : k \in DOMAIN ids}

\* syncScheduledWorkoutsToSupabase, likewise
scheduledAfter(L, R, k, stopped) ==
    LET ids == SortedSeq(Ids(L.scheduledWorkouts))
    IN syncScheduledLoop(SubSeq(ids, 1, k), L.scheduledWorkouts,
                         [L |-> L, R |-> R, synced |-> 0, failed |-> 0], <<>>,
                         [id \in Ids(L.scheduledWorkouts) |->
                             IF id = stopped THEN "dedupErr" ELSE "ok"])

stoppedInScheduled(L, R) ==
    LET ids == SortedSeq(Ids(L.scheduledWorkouts))
    IN stoppedInLoop([k \in 1..(Len(ids) + 1) |-> scheduledAfter(L, R, k - 1, 0)])
         \cup {Cut(scheduledAfter(L, R, k - 1, 0).L,
                   scheduledAfter(L, R, k, ids[k]).R) : k \in DOMAIN ids}

\* A download: the loop over the fetched rows has dealt with some of them, or
\* with all of them and the remote deletion check has deleted the local records
\* up to some id
stoppedInTemplatesDown(L, R) ==
    LET data == templatesData(R, <<>>)
        gone == templateRemoteDeletions(data, L.templates)
    IN IF data = <<>> THEN {Cut(L, R)}
       ELSE {Cut(downloadTemplatesLoop(SubSeq(data, 1, k), L.templates, L), R) :
                k \in 0..Len(data)}
            \cup {Cut([downloadTemplatesLoop(data, L.templates, L) EXCEPT
                          !.templates = {t \in @ : ~(t.id \in gone /\ t.id <= m)}], R) :
                     m \in gone}

stoppedInScheduledDown(L, R) ==
    LET data == scheduledData(R, <<>>)
        gone == scheduledRemoteDeletions(data, L.scheduledWorkouts)
    IN {Cut(downloadScheduledLoop(SubSeq(data, 1, k), L.scheduledWorkouts, L), R) :
           k \in 0..Len(data)}
       \cup {Cut([downloadScheduledLoop(data, L.scheduledWorkouts, L) EXCEPT
                     !.scheduledWorkouts = {w \in @ : ~(w.id \in gone /\ w.id <= m)}], R) :
                m \in gone}

stoppedInExercisesDown(L, R) ==
    LET data == exercisesData(R, <<>>)
    IN {Cut(downloadExercisesLoop(SubSeq(data, 1, k), L.exercises, L), R) :
           k \in 0..Len(data)}

\* cleanupOldWorkouts: for each workout to delete its sets are deleted, then
\* the workout
stoppedInCleanupOldWorkouts(L, keepCount) ==
    LET allWorkouts == latestFirst(completedWorkouts(L))
        workoutsToDelete == slice(allWorkouts, keepCount)
        deleted(j) == {workoutsToDelete[i].id : i \in 1..j}
    IN IF Len(allWorkouts) <= keepCount THEN {L}
       ELSE {[L EXCEPT !.sets = {x \in @ : x.workoutId \notin deleted(j)},
                       !.workouts = {w \in @ : w.id \notin deleted(j)}] :
                j \in 0..Len(workoutsToDelete)}
            \cup {[L EXCEPT !.sets = {x \in @ : x.workoutId \notin deleted(j)},
                            !.workouts = {w \in @ : w.id \notin deleted(j - 1)}] :
                     j \in 1..Len(workoutsToDelete)}

\* syncToSupabase(workoutId): the upsert of the workout, the delete of its
\* remote sets, the exercise rows made for its sets, the insert of the sets,
\* the local mark, cleanupOldWorkouts
stoppedInSyncToSupabase(L, R, workoutId) ==
    IF workoutId \notin Ids(L.workouts) \/ {x \in L.sets : x.workoutId = workoutId} = {}
    THEN {Cut(L, R)}
    ELSE LET workout == Rec(L.workouts, workoutId)
             sets == {x \in L.sets : x.workoutId = workoutId}
             upserted == upsertWorkout(R, workout)
             emptied == deleteWorkoutSets(upserted, workoutId)
             built == buildSetsToInsert(SortedSeq(Ids(sets)), L, emptied, workout, <<>>)
             inserted == insertWorkoutSets(built.R, built.setsToInsert)
             marked == [L EXCEPT !.workouts =
                           {IF w.id = workoutId THEN [w EXCEPT !.synced = TRUE] ELSE w :
                               w \in @}]
         IN {Cut(L, upserted), Cut(L, emptied), Cut(L, built.R)}
            \cup (IF built.setsToInsert = <<>> THEN {}
                  ELSE {Cut(L, inserted)}
                       \cup {Cut(c, inserted) :
                                c \in stoppedInCleanupOldWorkouts(marked, KeepCount)})

\* syncAllPendingWorkouts(false): syncExercises, then the workouts to sync
stoppedInHistory(L, R) ==
    LET E == syncExercises(L, R, AllCalls(L.exercises, "ok"))
        ids == SortedSeq(Ids(workoutsToSync(E.L, FALSE)))
        after(k) == syncWorkoutsLoop(SubSeq(ids, 1, k), FALSE,
                                     [L |-> E.L, R |-> E.R, synced |-> 0, failed |-> 0,
                                      uploaded |-> {}],
                                     AllCalls(workoutsToSync(E.L, FALSE), "ok"))
    IN stoppedInExercises(L, R)
         \cup UNION {stoppedInSyncToSupabase(after(k - 1).L, after(k - 1).R, ids[k]) :
                        k \in DOMAIN ids}

\* cleanupLocalDuplicates: the bulkDelete of the templates, then that of the
\* scheduled workouts
stoppedInCleanup(L, R) ==
    {Cut(L, R), Cut([cleanupLocalDuplicates(L) EXCEPT
                        !.scheduledWorkouts = L.scheduledWorkouts], R)}

\* The stores when the process stops in the phase p of a run, after any of the
\* writes of the phase or before the first
stoppedIn(p, L, R, t_now) ==
    CASE p = "deletions" -> stoppedInDeletions(L, R)
      [] p = "exercisesUp" -> stoppedInExercises(L, R)
      [] p = "exercisesDown" -> stoppedInExercisesDown(L, R)
      [] p = "templatesUp" -> stoppedInTemplates(L, R, t_now)
      [] p = "templatesDown" -> stoppedInTemplatesDown(L, R)
      [] p = "scheduledUp" -> stoppedInScheduled(L, R)
      [] p = "scheduledDown" -> stoppedInScheduledDown(L, R)
      [] p = "history" -> stoppedInHistory(L, R)
      [] p = "cleanup" -> stoppedInCleanup(L, R)
      [] OTHER -> {Cut(L, R)}

\* The process of device d stops in the phase its first run is in (the app is
\* closed or crashes); the phase before it has made all its writes
Crash(d) ==
    /\ syncs = 1
    /\ pc[d] \in Range(Phases)
    /\ \E S \in stoppedIn(pc[d], db[d], cloud, now) :
          /\ db' = [db EXCEPT ![d] = S.L]
          /\ cloud' = S.R
          /\ done' = Append(done, Event(d, "crash", FALSE, [phase |-> pc[d]],
                                        [db EXCEPT ![d] = S.L], S.R))
    /\ pc' = [pc EXCEPT ![d] = "idle"]
    /\ last' = [dev |-> d, phase |-> "crash", L |-> db[d], R |-> cloud,
                res |-> [phase |-> pc[d]], oc |-> <<>>]
    /\ UNCHANGED <<now, run, held, ops, faults, syncs>>

\* The stores of device A and the remote store when its run starts
OriginalStores ==
    LET one == StoreWithScheduled(1, "Push", 1)
        synced == runPhases(Phases, Cut(one, EmptyCloud), 1)
        other == runPhases(Phases, Cut(StoreWithScheduled(2, "push", 2), EmptyCloud), 1)
    IN { \* a template and a scheduled workout that were never uploaded
         Cut(one, EmptyCloud),
         \* two templates whose names differ in case
         Cut(saveNewTemplate(StoreWithTemplate(1, "Push", 1), "push", ListOf(2), 1),
             EmptyCloud),
         \* the scheduled workout was uploaded and then deleted on its page
         Cut(deleteScheduled(synced.L, Rec(synced.L.scheduledWorkouts, 1)), synced.R),
         \* another device has uploaded its template and scheduled workout
         Cut(EmptyStore(1), other.R),
         Cut(one, other.R),
         \* more finished workouts than cleanupOldWorkouts keeps
         Cut(StoreWithWorkouts(CrashBacklog), EmptyCloud) }

InitCrash ==
    \E S \in OriginalStores :
        /\ db = [d \in Devices |-> IF d = "A" THEN S.L ELSE EmptyStore(2)]
        /\ cloud = S.R
        /\ now = 1
        /\ pc = [d \in Devices |-> "idle"]
        /\ run = [d \in Devices |-> TRUE]
        /\ held = [d \in Devices |-> NothingHeld]
        /\ last = NoStep
        /\ done = <<Event("A", "start", TRUE, <<>>,
                          [d \in Devices |-> IF d = "A" THEN S.L ELSE EmptyStore(2)], S.R)>>
        /\ ops = 0
        /\ faults = 0
        /\ syncs = 0

NextCrash ==
    \E d \in {"A"} :
        \/ StartSync(d, CrashSyncs)
        \/ Crash(d)
        \/ SyncDeletions(d, Reliable, 0)
        \/ SyncUserSettings(d, 0)
        \/ FetchUserSettings(d, 0)
        \/ SyncExercises(d, Reliable, 0)
        \/ FetchExercises(d, 0)
        \/ SyncTemplates(d, Reliable, 0)
        \/ FetchTemplates(d, 0)
        \/ SyncScheduledWorkouts(d, Reliable, 0)
        \/ FetchScheduledWorkouts(d, 0)
        \/ SyncAllPendingWorkouts(d, Reliable, 0)
        \/ CleanupLocalDuplicates(d)

SpecCrash == InitCrash /\ [][NextCrash]_vars

\* The records of the local store without timestamps and sync marks: what the
\* user sees of them
localRecords(L) ==
    [exercises |-> {[name |-> e.name, muscleGroups |-> e.muscleGroups,
                     equipment |-> e.equipment] : e \in L.exercises},
     templates |-> {[name |-> t.name, exercises |-> localContent(L.exercises, t.exercises)] :
                       t \in L.templates},
     scheduledWorkouts |->
         {[date |-> w.date, templateName |-> w.templateName, notes |-> w.notes,
           completed |-> w.completed,
           exercises |-> localContent(L.exercises, w.exercises)] :
             w \in L.scheduledWorkouts},
     workouts |-> {[id |-> w.id, name |-> w.name, startTime |-> w.startTime,
                    endTime |-> w.endTime, status |-> w.status] : w \in L.workouts},
     sets |-> L.sets,
     deletedItems |-> L.deletedItems,
     localStorage |-> L.localStorage,
     count |-> [templates |-> Cardinality(L.templates),
                scheduledWorkouts |-> Cardinality(L.scheduledWorkouts),
                exercises |-> Cardinality(L.exercises)]]

\* The rows of the remote store without timestamps, row ids and local_id tags
remoteRecords(R) ==
    [exercises |-> {[name |-> r.name, muscle_group |-> r.muscle_group,
                     equipment |-> r.equipment, deleted |-> r.deleted] : r \in R.exercises},
     templates |-> {[user_id |-> r.user_id, name |-> r.name,
                     exercises |-> remoteContent(r.exercises)] : r \in R.templates},
     scheduled_workouts |->
         {[user_id |-> r.user_id, date |-> r.date, template_name |-> r.template_name,
           notes |-> r.notes, completed |-> r.completed,
           exercises |-> remoteContent(r.exercises)] : r \in R.scheduled_workouts},
     workouts |-> {[local_id |-> r.local_id, name |-> r.name, start_time |-> r.start_time,
                    end_time |-> r.end_time] : r \in R.workouts},
     workout_sets |->
         {[workout_local_id |-> s.workout_local_id, set_number |-> s.set_number,
           exercise |-> {r.name : r \in {x \in R.exercises : x.id = s.exercise_id}}] :
             s \in R.workout_sets},
     user_settings |-> {[user_id |-> r.user_id,
                         rest_timer_seconds |-> r.rest_timer_seconds] : r \in R.user_settings},
     count |-> [templates |-> Cardinality(R.templates),
                scheduled_workouts |-> Cardinality(R.scheduled_workouts),
                exercises |-> Cardinality(R.exercises),
                workouts |-> Cardinality(R.workouts),
                workout_sets |-> Cardinality(R.workout_sets),
                user_settings |-> Cardinality(R.user_settings)]]

\* What one phase of fullCloudSync can leave, every remote call succeeding: a
\* select without a total order returns its rows in any order
phaseOutcomes(p, L, R, t_now) ==
    CASE p = "exercisesDown" ->
            {Cut(fetchExercisesFromSupabase(L, R, h, "ok", 0), R) :
                h \in Perms(Ids(R.exercises))}
      [] p = "templatesUp" ->
            {Cut(syncTemplatesToSupabase(L, R, t_now, h, AllCalls(L.templates, "ok")).L,
                 syncTemplatesToSupabase(L, R, t_now, h, AllCalls(L.templates, "ok")).R) :
                h \in Perms(Ids(R.templates))}
      [] p = "templatesDown" ->
            {Cut(fetchTemplatesFromSupabase(L, R, h, "ok", 0), R) :
                h \in Perms(Ids(R.templates))}
      [] p = "scheduledUp" ->
            {Cut(syncScheduledWorkoutsToSupabase(L, R, h,
                                                 AllCalls(L.scheduledWorkouts, "ok")).L,
                 syncScheduledWorkoutsToSupabase(L, R, h,
                                                 AllCalls(L.scheduledWorkouts, "ok")).R) :
                h \in Perms(Ids(R.scheduled_workouts))}
      [] p = "scheduledDown" ->
            {Cut(fetchScheduledWorkoutsFromSupabase(L, R, h, "ok", 0), R) :
                h \in Perms(Ids(R.scheduled_workouts))}
      [] OTHER -> {reliablePhase(p, L, R, t_now)}

\* What fullCloudSync can leave from one of the stores SS, going through ps
RECURSIVE runOutcomes(_, _, _)
runOutcomes(ps, SS, t_now) ==
    IF ps = <<>> THEN SS
    ELSE runOutcomes(Tail(ps),
                     UNION {phaseOutcomes(Head(ps), S.L, S.R, t_now) : S \in SS}, t_now)

\* What a run without interruption can leave, started from the original stores
Uninterrupted == runOutcomes(Phases, {Cut(done[1].D["A"], done[1].R)}, 2)

\* The first run stopped and the run after it went through every phase
ResumedRunIsOver ==
    /\ Len(done) = 3
    /\ done[2].kind = "crash"
    /\ done[3].kind = "sync" /\ done[3].ok

\* C31: if a fullCloudSync is interrupted after any individual remote or local
\* write, a subsequent complete fullCloudSync with no local mutation in between
\* ends with the same records in the local and remote stores, timestamps
\* ignored, as an uninterrupted fullCloudSync from the original state would
\* have produced; no record, workout or workout set is lost or duplicated.
ResumedRunEndsLikeUninterrupted ==
    ResumedRunIsOver =>
        \E U \in Uninterrupted :
            /\ localRecords(done[3].D["A"]) = localRecords(U.L)
            /\ remoteRecords(done[3].R) = remoteRecords(U.R)

\* The resumed run is over and a template's exercise list that every
\* uninterrupted run leaves in the remote store is in neither store
ResumedRunLostTemplateContent ==
    /\ ResumedRunIsOver
    /\ \E r \in UNION {U.R.templates : U \in Uninterrupted} :
          /\ \A U \in Uninterrupted :
                \E q \in U.R.templates :
                    q.name = r.name /\ remoteContent(q.exercises) = remoteContent(r.exercises)
          /\ \A q \in done[3].R.templates :
                remoteContent(q.exercises) # remoteContent(r.exercises)
          /\ \A t \in done[3].D["A"].templates :
                localContent(done[3].D["A"].exercises, t.exercises)
                    # remoteContent(r.exercises)

----------------------------------------------------------------------------
(* SpecFlushLive: SpecFlush with a device that keeps running fullCloudSync *)

\* A phase of fullCloudSync after the tombstone flush, every remote call
\* succeeding
ReliablePhase(d) ==
    /\ pc[d] \in Range(Phases) \ {"deletions"}
    /\ LET S == reliablePhase(pc[d], db[d], cloud, now)
       IN Step(d, pc[d], S.L, S.R, 0, <<>>, <<>>)

\* A run of fullCloudSync on device A: only the calls of the tombstone flush
\* fail
RunFlush ==
    \E d \in {"A"} :
        \/ StartSync(d, FlushSyncs)
        \/ SyncDeletions(d, DeletionOutcomes, FlushFaults)
        \/ ReliablePhase(d)

NextFlushLive ==
    \/ \E d \in {"A"} :
          \/ HandleDeleteScheduled(d, FlushOps)
          \/ HandleDeleteExercise(d, FlushOps)
    \/ RunFlush

\* fullCloudSync keeps being invoked, and a run that has started goes on: every
\* await of fullCloudSync returns (each step of a run changes pc)
SpecFlushLive == InitFlush /\ [][NextFlushLive]_vars /\ WF_pc(RunFlush)

\* The tombstone with this id is in deletedItems of device A
pending(id) == \E item \in db["A"].deletedItems : item.id = id

\* More runs can still start than remote calls can still fail: a flush is to
\* come in which the remote store answers every deletion without error
FlushToCome ==
    \/ syncs + (FlushFaults - faults) < FlushSyncs
    \/ pc["A"] = "deletions" /\ faults = FlushFaults

\* C32: every tombstone recorded in deletedItems is eventually removed: a
\* failed flush leaves it pending for the next flush, and if fullCloudSync
\* keeps being invoked with an authenticated user and the remote store
\* eventually answers that tombstone's deletion without error, the tombstone
\* leaves the pending state and is deleted from deletedItems.
PendingTombstoneIsEventuallyRemoved ==
    \A id \in 1..FlushOps : (pending(id) /\ FlushToCome) ~> ~pending(id)

\* A flush has removed a tombstone that an earlier flush, whose remote call
\* failed, had left pending
TombstoneRemovedAtSecondFlush ==
    /\ last.phase = "deletions"
    /\ syncs = 2 /\ faults > 0
    /\ \E item \in last.L.deletedItems :
          /\ item.id \in last.res.cleared
          /\ item \notin db["A"].deletedItems
          /\ last.oc[item.id] = "ok"
    /\ \E i \in DOMAIN done : done[i].kind = "sync" /\ ~done[i].ok

----------------------------------------------------------------------------
(* SpecRename: a template that has been uploaded is renamed, then synced *)

\* The names the user may type over the name of the template
NewNames == {"push", "Legs"}

\* TemplateEditor.handleSaveTemplate on an existing template whose name the
\* user has changed, the exercises left as they are
HandleRenameTemplate(d, maxOps) ==
    \E x \in db[d].templates, name \in NewNames :
        /\ name # x.name
        /\ Mutation(d, "saveTemplate", x, saveTemplate(db[d], x.id, name, x.exercises), maxOps)

\* Device A holds the template "Push", alone or with a workout scheduled from it
InitRename ==
    \E a \in {StoreWithTemplate(1, "Push", 1), StoreWithScheduled(1, "Push", 1)},
       R \in {EmptyCloud, CloudWithHistory} :
        Start(a, EmptyStore(2), R)

NextRename ==
    \E d \in {"A"} :
        \/ HandleRenameTemplate(d, RenameOps)
        \/ StartSync(d, RenameSyncs)
        \/ SyncDeletions(d, Reliable, 0)
        \/ SyncUserSettings(d, 0)
        \/ FetchUserSettings(d, 0)
        \/ SyncExercises(d, Reliable, 0)
        \/ FetchExercises(d, 0)
        \/ SyncTemplates(d, Reliable, 0)
        \/ FetchTemplates(d, 0)
        \/ SyncScheduledWorkouts(d, Reliable, 0)
        \/ FetchScheduledWorkouts(d, 0)
        \/ SyncAllPendingWorkouts(d, Reliable, 0)
        \/ CleanupLocalDuplicates(d)

SpecRename == InitRename /\ [][NextRename]_vars

\* The template the user renamed last had a row in the remote store when it
\* was renamed, and one run of the device has returned since, every remote call
\* of it having succeeded
RenamedThenSynced ==
    /\ Len(done) = 2
    /\ done[1].kind = "saveTemplate"
    /\ \E r \in fetchedTemplates(done[1].R) : r.name = done[1].rec.name
    /\ done[2].kind = "sync" /\ done[2].ok /\ done[2].dev = done[1].dev

\* The name the user gave the template
newName == (CHOOSE x \in last.L.templates : x.id = done[1].rec.id).name

\* C33: after a synced template is renamed locally (TemplateEditor save) and
\* one fullCloudSync runs with all remote calls succeeding, exactly one template
\* for it exists locally and remotely, under the new name; no template with the
\* old name is re-created locally by the download.
RenamedTemplateExistsOnce ==
    RenamedThenSynced =>
        /\ \A x \in db["A"].templates : x.name = newName
        /\ Cardinality(db["A"].templates) = 1
        /\ \A r \in fetchedTemplates(cloud) : r.name = newName
        /\ Cardinality(fetchedTemplates(cloud)) = 1

\* The run after the rename to a different word has left the row of the old
\* name in the remote store and a template of the old name in the local store
OldNameRecreatedByDownload ==
    /\ RenamedThenSynced
    /\ newName = "Legs"
    /\ \E r \in fetchedTemplates(cloud) : r.name = "Push"
    /\ \E r \in fetchedTemplates(cloud) : r.name = "Legs"
    /\ \E x \in db["A"].templates : x.name = "Push" /\ x.id # done[1].rec.id
    /\ \E x \in db["A"].templates : x.name = "Legs" /\ x.id = done[1].rec.id

----------------------------------------------------------------------------
(* SpecSets: a workout with sets of several exercises, one of them deleted *)

\* A device with the seed exercises, none uploaded yet
InitSets ==
    \E R \in {EmptyCloud, CloudWithHistory} :
        Start(EmptyStore(1), EmptyStore(2), R)

NextSets ==
    \E d \in {"A"} :
        \/ HandleStartNewWorkout(d, SetsOps)
        \/ HandleAddExerciseToWorkout(d, SetsOps)
        \/ HandleDeleteExercise(d, SetsOps)
        \/ HandleFinishWorkout(d, Reliable, SetsOps)
        \/ StartSync(d, SetsSyncs)
        \/ SyncDeletions(d, Reliable, 0)
        \/ SyncUserSettings(d, 0)
        \/ FetchUserSettings(d, 0)
        \/ SyncExercises(d, Reliable, 0)
        \/ FetchExercises(d, 0)
        \/ SyncTemplates(d, Reliable, 0)
        \/ FetchTemplates(d, 0)
        \/ SyncScheduledWorkouts(d, Reliable, 0)
        \/ FetchScheduledWorkouts(d, 0)
        \/ SyncAllPendingWorkouts(d, Reliable, 0)
        \/ CleanupLocalDuplicates(d)

SpecSets == InitSets /\ [][NextSets]_vars

\* The workouts the last step marked synced
markedSynced ==
    {w \in db[last.dev].workouts :
        w.synced /\ \E v \in last.L.workouts : v.id = w.id /\ ~v.synced}

\* The remote store holds a workout_sets row for the local set s
setUploaded(R, s) ==
    \E r \in R.workout_sets, e \in R.exercises :
        /\ r.workout_local_id = s.workoutId
        /\ r.set_number = s.setNumber
        /\ r.exercise_id = e.id
        /\ e.local_id = s.exerciseId

\* C34: syncToSupabase marks a workout synced: true (which makes it eligible
\* for local cleanup) only if every one of its local sets was inserted into the
\* remote workout_sets table; a workout with at least one set whose exercise
\* could not be resolved to a remote id is not marked synced.
SyncedOnlyWithEverySet ==
    last.phase \in {"finish", "history"} =>
        \A w \in markedSynced : \A s \in last.L.sets :
            s.workoutId = w.id => setUploaded(cloud, s)

\* A workout has been marked synced with one of its sets inserted and another,
\* of an exercise deleted from the local store and never uploaded, skipped
SyncedWithSkippedSet ==
    /\ last.phase = "finish"
    /\ \E w \in markedSynced : \E s, t \in last.L.sets :
           /\ s.workoutId = w.id /\ t.workoutId = w.id
           /\ setUploaded(cloud, s)
           /\ ~setUploaded(cloud, t)
           /\ t.exerciseId \notin Ids(last.L.exercises)
           /\ \A e \in last.R.exercises : e.local_id # t.exerciseId

----------------------------------------------------------------------------
(* SpecNames: a device downloads exercises that other devices have uploaded *)

\* The store of a device on which the user has added these exercises in turn,
\* with this muscle group ticked
RECURSIVE StoreWithAdded(_, _, _)
StoreWithAdded(first, names, groups) ==
    IF names = <<>> THEN EmptyStore(first)
    ELSE addExercise(StoreWithAdded(first, SubSeq(names, 1, Len(names) - 1), groups),
                     names[Len(names)], groups)

\* The remote store R after the devices with these stores have run
\* syncExercises in turn, every call succeeding
RECURSIVE UploadedBy(_, _)
UploadedBy(R, stores) ==
    IF stores = <<>> THEN R
    ELSE LET L == stores[Len(stores)]
         IN syncExercises(L, UploadedBy(R, SubSeq(stores, 1, Len(stores) - 1)),
                          AllCalls(L.exercises, "ok")).R

\* The device with store L deletes its exercise id on the Exercises page and
\* runs syncDeletionsToSupabase, every call succeeding
DeletedAndFlushed(L, R, id) ==
    LET deleted == deleteExercise(L, Rec(L.exercises, id))
    IN syncDeletionsToSupabase(deleted, R, AllCalls(deleted.deletedItems, "ok"))

\* Device A holds the seed exercises. Device B holds the exercises "Curl" and
\* "Row" it has added (local ids 3 and 4) and has uploaded them; a third device
\* of the user has then uploaded the one exercise it has added (local id 3),
\* called "row" or "Legs": its upsert on local_id has replaced the row of
\* "Curl". In the second case the remote store held a finished workout with a
\* set of "Bench Press", and device A has then deleted that exercise and run
\* the tombstone flush: the row of the exercise is soft-deleted
InitNames ==
    \E name \in {"row", "Legs"}, groups \in MuscleGroupChoices, history \in BOOLEAN :
        LET b == StoreWithAdded(2, <<"Curl", "Row">>, "Back")
            c == StoreWithAdded(3, <<name>>, groups)
            R == UploadedBy(IF history THEN CloudWithHistory ELSE EmptyCloud, <<b, c>>)
            S == DeletedAndFlushed(EmptyStore(1), R, 1)
        IN IF history THEN Start(S.L, b, S.R)
           ELSE Start(EmptyStore(1), b, R)

NextNames ==
    \E d \in Devices :
        \/ StartSync(d, NamesSyncs)
        \/ SyncDeletions(d, Reliable, 0)
        \/ SyncUserSettings(d, 0)
        \/ FetchUserSettings(d, 0)
        \/ SyncExercises(d, Reliable, 0)
        \/ FetchExercises(d, 0)
        \/ SyncTemplates(d, Reliable, 0)
        \/ FetchTemplates(d, 0)
        \/ SyncScheduledWorkouts(d, Reliable, 0)
        \/ FetchScheduledWorkouts(d, 0)
        \/ SyncAllPendingWorkouts(d, Reliable, 0)
        \/ CleanupLocalDuplicates(d)

SpecNames == InitNames /\ [][NextNames]_vars

\* No two of the exercises share a name, compared case-insensitively
uniqueNames(exercises) ==
    \A x, y \in exercises : toLowerCase(x.name) = toLowerCase(y.name) => x.id = y.id

\* C35: if no two local exercises share a case-insensitive name before
\* fetchExercisesFromSupabase runs, none do after it returns, for any contents
\* of the remote exercises table, including several remote rows with the same
\* name uploaded under different local_id tags.
DownloadKeepsExerciseNamesUnique ==
    (last.phase = "exercisesDown" /\ uniqueNames(last.L.exercises)) =>
        uniqueNames(db[last.dev].exercises)

\* The download has added two exercises whose names differ only in case, from
\* two rows uploaded under different local ids
TwoRowsOfOneNameAdded ==
    /\ last.phase = "exercisesDown" /\ uniqueNames(last.L.exercises)
    /\ \E x, y \in db[last.dev].exercises \ last.L.exercises :
           /\ x.id # y.id
           /\ toLowerCase(x.name) = toLowerCase(y.name)
           /\ \E r, q \in fetchedExercises(last.R) :
                  r.name = x.name /\ q.name = y.name /\ r.local_id # q.local_id

\* The local exercises when the download started and when it returned, and the
\* rows it fetched
exercisesBefore == last.L.exercises

exercisesAfter == db[last.dev].exercises

exercisesAdded == {x \in exercisesAfter : x.id \notin Ids(exercisesBefore)}

\* localByName.get(cloudExercise.name?.toLowerCase()) finds the local exercise e
matchedBy(e, r) ==
    /\ toLowerCase(e.name) = toLowerCase(r.name)
    /\ e = exerciseByName(exercisesBefore, toLowerCase(r.name))

hasValuesOf(x, r) == x.muscleGroups = r.muscle_group /\ x.equipment = r.equipment

\* The fetched rows matched to e whose muscle groups or equipment differ from e's
differingRows(e) ==
    {r \in fetchedExercises(last.R) : matchedBy(e, r) /\ ~hasValuesOf(e, r)}

----------------------------------------------------------------------------
(* SpecForeign: a template that lists an exercise the user has added *)

\* Device A holds the exercise "Row" the user has added (local id 3) and a
\* template "Push" that lists it; device B holds an exercise of its own, "Curl",
\* under the same local id, or the seed exercises only
InitForeign ==
    \E b \in {StoreWithAdded(2, <<"Curl">>, "Back"), EmptyStore(2)} :
        Start(saveNewTemplate(StoreWithAdded(1, <<"Row">>, "Back"), "Push", ListOf(3), 1),
              b, EmptyCloud)

NextForeign ==
    \E d \in Devices :
        \/ StartSync(d, ForeignSyncs)
        \/ SyncDeletions(d, Reliable, 0)
        \/ SyncUserSettings(d, 0)
        \/ FetchUserSettings(d, 0)
        \/ SyncExercises(d, Reliable, 0)
        \/ FetchExercises(d, 0)
        \/ SyncTemplates(d, Reliable, 0)
        \/ FetchTemplates(d, 0)
        \/ SyncScheduledWorkouts(d, Reliable, 0)
        \/ FetchScheduledWorkouts(d, 0)
        \/ SyncAllPendingWorkouts(d, Reliable, 0)
        \/ CleanupLocalDuplicates(d)

SpecForeign == InitForeign /\ [][NextForeign]_vars

\* The entry's exerciseId identifies no local exercise, or one named as the
\* entry says, compared case-insensitively
identifiesNamedExercise(exercises, ex) ==
    \A e \in exercises :
        e.id = ex.exerciseId => toLowerCase(e.name) = toLowerCase(ex.exerciseName)

\* The lists the last step has written to the local store from fetched rows:
\* those of the templates or scheduled workouts it added or overwrote
downloadedLists ==
    IF last.phase = "templatesDown"
    THEN {x.exercises : x \in db[last.dev].templates \ last.L.templates}
    ELSE {x.exercises : x \in db[last.dev].scheduledWorkouts \ last.L.scheduledWorkouts}

\* C37: after a template or scheduled workout uploaded by another device has
\* been downloaded, each entry's exerciseId either identifies a local exercise
\* whose name equals the entry's exerciseName case-insensitively or identifies
\* no local exercise at all; it never identifies a local exercise with a
\* different name.
DownloadedIdsNameTheirExercise ==
    (last.phase \in {"templatesDown", "scheduledDown"} /\ last.res.ok) =>
        \A list \in downloadedLists : \A i \in DOMAIN list :
            identifiesNamedExercise(db[last.dev].exercises, list[i])

\* A downloaded entry has kept the id the uploading device gave it, and on
\* this device that id is the id of an exercise with another name
ForeignIdNamesOtherExercise ==
    /\ last.phase \in {"templatesDown", "scheduledDown"} /\ last.res.ok
    /\ \E list \in downloadedLists : \E i \in DOMAIN list :
           /\ list[i].exerciseName # NoName
           /\ nameToId(db[last.dev].exercises, toLowerCase(list[i].exerciseName)) = 0
           /\ list[i].exerciseName = "Row"
           /\ \E e \in db[last.dev].exercises :
                  e.id = list[i].exerciseId /\ e.name = "Curl"

----------------------------------------------------------------------------
(* SpecFromCloud: convertExercisesFromCloud on the lists of fetched rows *)

\* The names an entry of a fetched list may carry: none (a list uploaded
\* without the conversion), the name of a seed exercise in another case, the
\* name of an exercise the device may hold, the name uploaded for an exercise
\* the uploading device did not hold
CloudNames == {NoName, "bench press", "Row", "Unknown Exercise"}

\* The entries of the lists of fetched rows
CloudEntries(L) ==
    [exerciseId : Ids(L.exercises) \cup {MissingId}, instanceId : {"i1", "i2"},
     sets : {"3x10"}, exerciseName : CloudNames]

\* convertExercisesFromCloud(list) on device d. The conversion reads the local
\* exercises and the list only, so one conversion is followed for each content
\* of the store
FromCloud(d) ==
    /\ AllIdle
    /\ last.phase # "fromCloud"
    /\ \E list \in Lists(CloudEntries(db[d]), MaxLen) :
           last' = [dev |-> d, phase |-> "fromCloud", L |-> db[d], R |-> cloud,
                    res |-> [list |-> list,
                             back |-> convertExercisesFromCloud(db[d].exercises, list)],
                    oc |-> <<>>]
    /\ UNCHANGED <<db, cloud, now, pc, run, held, done, ops, faults, syncs>>

InitFromCloud == Start(EmptyStore(1), EmptyStore(2), EmptyCloud)

NextFromCloud ==
    \E d \in {"A"} :
        \/ HandleAddExercise(d, CloudOps)
        \/ HandleDeleteExercise(d, CloudOps)
        \/ FromCloud(d)

SpecFromCloud == InitFromCloud /\ [][NextFromCloud]_vars

\* No local exercise has the entry's name, compared case-insensitively
nameUnmatched(exercises, ex) ==
    \A e \in exercises : toLowerCase(e.name) # toLowerCase(ex.exerciseName)

----------------------------------------------------------------------------
(* SpecCleanup: a run on a device with templates and workouts of like names *)

\* A device on which the user has saved a template under each of these names
\* in turn and has scheduled, for the same day, the templates whose ids are in
\* planned
StoreWithRecords(names, planned) ==
    [EmptyStore(1) EXCEPT
        !.templates = {NewTemplate(i, names[i], ListOf(1), 1) : i \in DOMAIN names},
        !.next.templates = Len(names) + 1,
        !.scheduledWorkouts =
            {NewScheduled(i, NewTemplate(i, names[i], ListOf(1), 1), 1) : i \in planned},
        !.next.scheduledWorkouts = Len(names) + 1]

InitCleanup ==
    \E names \in [1..CleanupRecords -> {"Push", "push", "Legs"}],
       planned \in SUBSET (1..CleanupRecords) :
        Start(StoreWithRecords(names, planned), EmptyStore(2), EmptyCloud)

NextCleanup ==
    \E d \in {"A"} :
        \/ StartSync(d, CleanupSyncs)
        \/ SyncDeletions(d, Reliable, 0)
        \/ SyncUserSettings(d, 0)
        \/ FetchUserSettings(d, 0)
        \/ SyncExercises(d, Reliable, 0)
        \/ FetchExercises(d, 0)
        \/ SyncTemplates(d, Reliable, 0)
        \/ FetchTemplates(d, 0)
        \/ SyncScheduledWorkouts(d, Reliable, 0)
        \/ FetchScheduledWorkouts(d, 0)
        \/ SyncAllPendingWorkouts(d, Reliable, 0)
        \/ CleanupLocalDuplicates(d)

SpecCleanup == InitCleanup /\ [][NextCleanup]_vars


\* The records of T that no record of T with a lower id shares its key with
firstSeen(T, key) == {x \in T : \A q \in T : key[q] = key[x] => x.id <= q.id}

\* No two records of T share a key
uniqueKeys(T, key) == \A x, y \in T : key[x] = key[y] => x = y

\* C39: after cleanupLocalDuplicates, no two local templates share a
\* case-insensitive name and no two local scheduled workouts share (date,
\* case-insensitive templateName); in each group of duplicates the first-seen
\* record (lowest local id) is the one kept, and records with a unique natural
\* key are untouched.
CleanupKeepsFirstSeen ==
    last.phase = "cleanup" =>
        LET templates == db[last.dev].templates
            scheduled == db[last.dev].scheduledWorkouts
        IN /\ uniqueKeys(templates, [x \in templates |-> templateKey(x)])
           /\ uniqueKeys(scheduled, [x \in scheduled |-> scheduledKey(x)])
           /\ templates = firstSeen(last.L.templates,
                                    [x \in last.L.templates |-> templateKey(x)])
           /\ scheduled = firstSeen(last.L.scheduledWorkouts,
                                    [x \in last.L.scheduledWorkouts |-> scheduledKey(x)])

\* cleanupLocalDuplicates has deleted the later of two templates whose names
\* differ only in case and the later of two workouts scheduled for the same
\* day from them, has kept the first of each as it was, and has left a
\* template of another name as it was
LaterDuplicatesDeleted ==
    /\ last.phase = "cleanup"
    /\ \E x, y \in last.L.templates :
           /\ x.id < y.id /\ x.name # y.name /\ templateKey(x) = templateKey(y)
           /\ x \in db[last.dev].templates
           /\ y.id \notin Ids(db[last.dev].templates)
    /\ \E v, w \in last.L.scheduledWorkouts :
           /\ v.id < w.id /\ scheduledKey(v) = scheduledKey(w)
           /\ v \in db[last.dev].scheduledWorkouts
           /\ w.id \notin Ids(db[last.dev].scheduledWorkouts)
    /\ \E t \in last.L.templates :
           /\ t \in db[last.dev].templates
           /\ \A q \in last.L.templates : templateKey(q) = templateKey(t) => q = t

----------------------------------------------------------------------------
(* SpecDefaults: runs on a device whose settings the user has never changed *)

\* useRestTimer: saved !== null ? saved !== 'false' : true
restTimerEnabled(L) ==
    IF L.localStorage.restTimerEnabled = Unset THEN TRUE
    ELSE L.localStorage.restTimerEnabled # "false"

\* useRestTimer: saved !== null ? Number(saved) : 90
restTime(L) ==
    IF L.localStorage.restTimerDefault = NoSetting THEN DefaultRestTimer
    ELSE L.localStorage.restTimerDefault

\* Settings.handleToggle: the page shows the stored value, or enabled when
\* nothing is stored, and stores the opposite
handleToggle(L) ==
    LET enabled == IF L.localStorage.restTimerEnabled = Unset THEN TRUE
                   ELSE L.localStorage.restTimerEnabled = "true"
    IN [L EXCEPT !.localStorage.restTimerEnabled = String(~enabled)]

\* Nothing is stored for either setting
settingsUnset(L) ==
    /\ L.localStorage.restTimerEnabled = Unset
    /\ L.localStorage.restTimerDefault = NoSetting

\* The user has never changed a setting on device A. On device B nothing has
\* been changed either, or the user has chosen a rest time and has switched the
\* rest timer off and on again, and the device has uploaded its settings
InitDefaults ==
    \E value \in RestTimerChoices, stored \in BOOLEAN :
        LET b == handleTimeChange(handleToggle(handleToggle(EmptyStore(2))), value)
        IN IF stored
           THEN StartAt(EmptyStore(1), b, syncUserSettingsToSupabase(b, EmptyCloud, 1, "ok"), 2)
           ELSE Start(EmptyStore(1), EmptyStore(2), EmptyCloud)

NextDefaults ==
    \E d \in Devices :
        \/ StartSync(d, DefaultsSyncs)
        \/ SyncDeletions(d, Reliable, 0)
        \/ SyncUserSettings(d, 0)
        \/ FetchUserSettings(d, 0)
        \/ SyncExercises(d, Reliable, 0)
        \/ FetchExercises(d, 0)
        \/ SyncTemplates(d, Reliable, 0)
        \/ FetchTemplates(d, 0)
        \/ SyncScheduledWorkouts(d, Reliable, 0)
        \/ FetchScheduledWorkouts(d, 0)
        \/ SyncAllPendingWorkouts(d, Reliable, 0)
        \/ CleanupLocalDuplicates(d)

SpecDefaults == InitDefaults /\ [][NextDefaults]_vars

\* C40: a fullCloudSync on a device where the user has never changed a setting
\* does not change the effective value of any local setting: in particular the
\* rest timer, which is enabled by default when restTimerEnabled is unset, is
\* still enabled after the settings upload and download, and settings already
\* stored remotely by another device are not replaced by this device's unset
\* defaults.
UnsetDefaultsChangeNothing ==
    /\ (last.phase = "settingsDown" /\ settingsUnset(last.L)) =>
           /\ restTimerEnabled(db[last.dev]) = restTimerEnabled(last.L)
           /\ restTime(db[last.dev]) = restTime(last.L)
    /\ (last.phase = "settingsUp" /\ settingsUnset(last.L)) =>
           \A r \in userSettingsRows(last.R) :
               \E q \in userSettingsRows(cloud) :
                   /\ q.id = r.id
                   /\ q.rest_timer_enabled = r.rest_timer_enabled
                   /\ q.rest_timer_seconds = r.rest_timer_seconds

\* The download of a device with nothing stored has stored 'false' for the
\* rest timer, which the device's own upload had written to the row: the rest
\* timer was enabled and is disabled
RestTimerDisabledBySync ==
    /\ last.phase = "settingsDown" /\ last.dev = "A"
    /\ settingsUnset(last.L)
    /\ restTimerEnabled(last.L)
    /\ ~restTimerEnabled(db["A"])
    /\ db["A"].localStorage.restTimerEnabled = "false"
    /\ \A r \in userSettingsRows(cloud) : ~r.rest_timer_enabled

====
